---- MODULE Spec2Model ----
(***************************************************************************)
(* Elite Video Pipeline v3.0: the job orchestration layer.                 *)
(*                                                                         *)
(* RedisOrchestrator (src/src/redis_orchestrator.py) keeps one hash per    *)
(* job under pipeline:state:<job_id> and six lists (five stage queues and  *)
(* the dead-letter queue).  PipelineOrchestrator                           *)
(* (src/src/pipeline_orchestrator.py) validates submissions, drives a job  *)
(* through its stages and keeps the statistics counters.                   *)
(*                                                                         *)
(* The store client (redis-py) is outside the repository: its commands     *)
(* are modelled by their contract (HSET merges fields and creates the key, *)
(* EXPIRE sets a deadline on an existing key, RPUSH appends at the tail,   *)
(* BLPOP removes the head, HGETALL of a missing key is the empty map, DEL  *)
(* removes a key), and a command sent while the store is unreachable       *)
(* raises.  Every handler is one action; whether the store is reachable is  *)
(* the environment's choice at each command, so the command at which a     *)
(* handler finds the store unreachable is an input of the action.          *)
(*                                                                         *)
(* A BLPOP on an empty list waits: a payload pushed on a list with waiting  *)
(* BLPOPs is handed to one of them, a positive timeout ends the wait with   *)
(* no item, and a timeout of 0 waits without limit.  A dequeue call is      *)
(* therefore several steps of its worker: the call, and its return.         *)
(*                                                                         *)
(* Time is counted in milliseconds, the resolution of the job id.          *)
(*                                                                         *)
(* A hash holds the fields it is given, with the values they have in the   *)
(* program (None is NoneT or NoneStr); how the client encodes a value on   *)
(* the wire, and whether it accepts None or a dict as a value, belongs to  *)
(* the client and is not modelled.                                         *)
(***************************************************************************)
EXTENDS Integers, Sequences, FiniteSets, TLC

VARIABLES
    state,            \* job_id -> hash of the job (pipeline:state:<job_id>)
    ttl,              \* job_id -> time at which the key expires (keys with an expiry)
    queues,           \* queue name -> list of payloads (pipeline:queue:<name>)
    stats,            \* PipelineOrchestrator.stats
    redis_available,  \* PipelineOrchestrator.redis_available, fixed at construction
    now,              \* the clock, in milliseconds
    last,             \* the call made by the last step and what it returned
    batch,            \* the batch_process call in progress
    workers,          \* worker -> its dequeue call and what dequeue returned to it
    enqueued,         \* queue name -> the payloads enqueue pushed, in order
    delivered,        \* queue name -> the payloads handed to dequeue calls, in order
    vertices          \* number of emotional_vertices:* keys in the store

vars == <<state, ttl, queues, stats, redis_available, now, last, batch,
          workers, enqueued, delivered, vertices>>

\* what the direct clients of RedisOrchestrator add to the state
clientVars == <<workers, enqueued, delivered, vertices>>

-----------------------------------------------------------------------------
(* Bounds of the model *)

MaxClock == 2        \* steps of the clock
MaxJobs == 1         \* job hashes in the store at a time
MaxSubmitted == 2    \* cap on stats.jobs_submitted
MaxProcessed == 2    \* cap on stats.jobs_completed + stats.jobs_failed
MaxBatch == 2        \* longest list handed to batch_process
MaxEnqueued == 3     \* payloads pushed by enqueue calls

-----------------------------------------------------------------------------
(* Program constants *)

JobTTLSeconds == 86400
MsPerSecond == 1000
NoneT == -1                      \* Python None in a timestamp field
NoneStr == "None"                \* Python None where a string is expected
NoJob == <<>>                    \* Python None where a job id is expected

JobTTL == JobTTLSeconds * MsPerSecond

\* the step of the model's clock: 12 hours
ClockStep == JobTTL \div 2

IDLE == "idle"
PROCESSING == "processing"
COMPLETED == "completed"
FAILED == "failed"
PAUSED == "paused"
ServiceStatus == {IDLE, PROCESSING, COMPLETED, FAILED, PAUSED}

StageQueues == {"oracle", "trickster", "cartographer", "spectacle", "ironist"}
QueueNames == StageQueues \cup {"dlq"}

\* the PROCESSING updates of process_job, in the order of the code
RecordedStages == <<"oracle", "trickster", "cartographer", "spectacle", "ironist">>

AllEmotions ==
    {"curiosity", "fear", "triumph", "tension", "wonder", "urgency", "melancholy",
     "romance", "joy", "nostalgia", "rage", "serenity"}
Intensities == {"light", "medium", "heavy"}

\* EMOTIONAL_INDEX[emotion]["camera"][intensity]["movement"]
CameraMovement ==
    [e \in AllEmotions |->
       CASE e = "curiosity" -> [light |-> "slow_zoom_in", medium |-> "dolly_forward", heavy |-> "push_in_dramatic"]
         [] e = "fear" -> [light |-> "handheld_slight_shake", medium |-> "dutch_angle_creep", heavy |-> "erratic_handheld"]
         [] e = "triumph" -> [light |-> "slow_rise", medium |-> "crane_up_hero", heavy |-> "drone_orbit_ascend"]
         [] e = "tension" -> [light |-> "static_locked", medium |-> "micro_shake_anticipation", heavy |-> "zoom_in_aggressive"]
         [] e = "wonder" -> [light |-> "slow_pan_reveal", medium |-> "crane_rise_majestic", heavy |-> "orbital_360_slow"]
         [] e = "urgency" -> [light |-> "quick_cuts_static", medium |-> "chase_cam_forward", heavy |-> "frenetic_multi_angle"]
         [] e = "melancholy" -> [light |-> "slow_dolly_back", medium |-> "crane_descend_slow", heavy |-> "static_hold_long"]
         [] e = "romance" -> [light |-> "static_two_shot", medium |-> "slow_dolly_in", heavy |-> "orbit_slow_close"]
         [] e = "joy" -> [light |-> "static_wide", medium |-> "whip_pan_reveal", heavy |-> "snap_zoom_funny"]
         [] e = "nostalgia" -> [light |-> "handheld_gentle", medium |-> "slow_pan_drift", heavy |-> "floating_cam"]
         [] e = "rage" -> [light |-> "static_tense", medium |-> "shaky_cam_build", heavy |-> "erratic_chaos"]
         [] e = "serenity" -> [light |-> "static_locked", medium |-> "slow_pan_landscape", heavy |-> "drone_hover"]]

\* EMOTIONAL_INDEX[emotion]["color"][intensity]: the grade, the saturation
\* adjustment in percent and, in hundredths, the contrast and (where the entry
\* has one) the vignette; the other fields of an entry are read by nothing
ColorPart ==
    [e \in AllEmotions |->
       CASE e = "curiosity" ->
            [light |-> [grade |-> "neutral_cool", saturation |-> -5, contrast |-> 105, vignette |-> 10],
             medium |-> [grade |-> "mystery_teal", saturation |-> -10, contrast |-> 115, vignette |-> 30],
             heavy |-> [grade |-> "noir_blue", saturation |-> -20, contrast |-> 135, vignette |-> 50]]
         [] e = "fear" ->
            [light |-> [grade |-> "slightly_desaturated", saturation |-> -10, contrast |-> 110],
             medium |-> [grade |-> "cold_blue_shadows", saturation |-> -20, contrast |-> 125, vignette |-> 40],
             heavy |-> [grade |-> "horror_green_tint", saturation |-> -30, contrast |-> 150, vignette |-> 70]]
         [] e = "triumph" ->
            [light |-> [grade |-> "warm_lift", saturation |-> 10, contrast |-> 105],
             medium |-> [grade |-> "golden_hour", saturation |-> 20, contrast |-> 115],
             heavy |-> [grade |-> "epic_teal_orange", saturation |-> 35, contrast |-> 130]]
         [] e = "tension" ->
            [light |-> [grade |-> "neutral_sharp", saturation |-> 0, contrast |-> 115],
             medium |-> [grade |-> "high_contrast_cold", saturation |-> -15, contrast |-> 135],
             heavy |-> [grade |-> "stark_black_white", saturation |-> -50, contrast |-> 160, vignette |-> 60]]
         [] e = "wonder" ->
            [light |-> [grade |-> "pastel_dream", saturation |-> 15, contrast |-> 95],
             medium |-> [grade |-> "ethereal_glow", saturation |-> 25, contrast |-> 90],
             heavy |-> [grade |-> "magic_hour_amplified", saturation |-> 40, contrast |-> 85]]
         [] e = "urgency" ->
            [light |-> [grade |-> "high_contrast_warm", saturation |-> 5, contrast |-> 120],
             medium |-> [grade |-> "action_orange_crush", saturation |-> 15, contrast |-> 140],
             heavy |-> [grade |-> "explosive_color_pop", saturation |-> 30, contrast |-> 160]]
         [] e = "melancholy" ->
            [light |-> [grade |-> "muted_cool", saturation |-> -10, contrast |-> 95],
             medium |-> [grade |-> "desaturated_blue", saturation |-> -25, contrast |-> 85, vignette |-> 30],
             heavy |-> [grade |-> "monochrome_blue_tint", saturation |-> -40, contrast |-> 75, vignette |-> 60]]
         [] e = "romance" ->
            [light |-> [grade |-> "warm_soft", saturation |-> 10, contrast |-> 100],
             medium |-> [grade |-> "golden_glow", saturation |-> 15, contrast |-> 110, vignette |-> 20],
             heavy |-> [grade |-> "deep_passion", saturation |-> 20, contrast |-> 120]]
         [] e = "joy" ->
            [light |-> [grade |-> "bright_natural", saturation |-> 5, contrast |-> 100],
             medium |-> [grade |-> "vibrant_pop", saturation |-> 20, contrast |-> 110],
             heavy |-> [grade |-> "candy_crush", saturation |-> 35, contrast |-> 120]]
         [] e = "nostalgia" ->
            [light |-> [grade |-> "sepia_tint_light", saturation |-> -10, contrast |-> 95],
             medium |-> [grade |-> "faded_film", saturation |-> -25, contrast |-> 90],
             heavy |-> [grade |-> "memory_lane", saturation |-> -40, contrast |-> 85]]
         [] e = "rage" ->
            [light |-> [grade |-> "cold_steel", saturation |-> -10, contrast |-> 120],
             medium |-> [grade |-> "simmering_heat", saturation |-> 0, contrast |-> 140],
             heavy |-> [grade |-> "seeing_red", saturation |-> 20, contrast |-> 170]]
         [] e = "serenity" ->
            [light |-> [grade |-> "natural_balanced", saturation |-> 0, contrast |-> 100],
             medium |-> [grade |-> "cool_breeze", saturation |-> 5, contrast |-> 95],
             heavy |-> [grade |-> "zen_garden", saturation |-> 10, contrast |-> 90]]]

\* EMOTIONAL_INDEX[emotion]["vfx"][intensity]
Vfx ==
    [e \in AllEmotions |->
       CASE e = "curiosity" ->
            [light |-> <<"subtle_glow_edges">>,
             medium |-> <<"light_rays", "dust_particles">>,
             heavy |-> <<"lens_flare_mystery", "depth_fog", "chromatic_aberration">>]
         [] e = "fear" ->
            [light |-> <<"vignette_crawl">>,
             medium |-> <<"shadow_flicker", "screen_glitch">>,
             heavy |-> <<"chromatic_shift", "distortion_waves", "static_burst">>]
         [] e = "triumph" ->
            [light |-> <<"soft_glow">>,
             medium |-> <<"light_rays_strong", "particle_sparkle">>,
             heavy |-> <<"epic_lens_flare", "light_streak", "particle_explosion">>]
         [] e = "tension" ->
            [light |-> <<"frame_jitter">>,
             medium |-> <<"time_remap_subtle", "sound_visualizer">>,
             heavy |-> <<"strobe_flash", "frame_skip", "reverse_time_glitch">>]
         [] e = "wonder" ->
            [light |-> <<"soft_bokeh">>,
             medium |-> <<"particle_float", "light_beams_soft">>,
             heavy |-> <<"god_rays_volumetric", "particle_galaxy", "lens_orbs">>]
         [] e = "urgency" ->
            [light |-> <<"speed_lines">>,
             medium |-> <<"motion_trails", "frame_blending">>,
             heavy |-> <<"strobe_cuts", "whip_transitions", "zoom_blur">>]
         [] e = "melancholy" ->
            [light |-> <<"rain_overlay_light">>,
             medium |-> <<"rain_medium", "window_droplets">>,
             heavy |-> <<"heavy_rain", "fog_dense", "chromatic_aberration_subtle">>]
         [] e = "romance" ->
            [light |-> <<"soft_glow_subtle">>,
             medium |-> <<"bokeh_particles", "light_leak_warm">>,
             heavy |-> <<"dreamy_haze", "heartbeat_vignette">>]
         [] e = "joy" ->
            [light |-> <<"clean_sharp">>,
             medium |-> <<"confetti_subtle", "lens_flare_bright">>,
             heavy |-> <<"speed_lines_comic", "star_burst">>]
         [] e = "nostalgia" ->
            [light |-> <<"dust_motes">>,
             medium |-> <<"film_grain_16mm", "vignette_soft">>,
             heavy |-> <<"film_burn", "projector_flicker", "heavy_grain">>]
         [] e = "rage" ->
            [light |-> <<"heat_haze_subtle">>,
             medium |-> <<"camera_shake_impact", "distortion_edges">>,
             heavy |-> <<"chromatic_aberration_strong", "red_flash", "screen_tear">>]
         [] e = "serenity" ->
            [light |-> <<"clean_frame">>,
             medium |-> <<"mist_layer", "slow_particles">>,
             heavy |-> <<"god_rays_subtle", "water_shimmer">>]]

-----------------------------------------------------------------------------
(* Inputs the actions draw from *)

VideoIds == {"video_001"}
InputEmotions == {"curiosity", "not_an_emotion"}
InputIntensities == {"medium", "extreme"}
InputMetadata == {NoneStr}
ConnectionError == "ConnectionError"      \* str(e) of a store command that raised
WorkerError == "stage failed"             \* the error text a worker reports
UnknownJob == <<"video_404", 0>>          \* a job id no submit returns
Workers == {"w1", "w2"}                   \* the workers that call dequeue
InputServices == {"oracle", "trickster", "alchemist"}   \* alchemist has no queue
InputTimeouts == {0, 5}                   \* dequeue's timeout, in seconds
InputPayloads == {[job_id |-> <<"video_001", 0>>], [job_id |-> <<"video_002", 0>>]}

-----------------------------------------------------------------------------
(* Maps (Python dict, Redis hash) *)

EmptyMap == [x \in {} |-> NoneStr]

IsEmpty(m) == DOMAIN m = {}

Get(m, k, default) == IF k \in DOMAIN m THEN m[k] ELSE default

Put(m, k, v) == [x \in DOMAIN m \cup {k} |-> IF x = k THEN v ELSE m[x]]

Drop(m, k) == [x \in DOMAIN m \ {k} |-> m[x]]

\* dict.update / HSET mapping: the fields of upd replace those of old
Merge(upd, old) ==
    [x \in DOMAIN upd \cup DOMAIN old |-> IF x \in DOMAIN upd THEN upd[x] ELSE old[x]]

-----------------------------------------------------------------------------
(* The store's commands, as RedisOrchestrator uses them *)

\* a write that replaces the whole hash by the mapping (DEL, then HSET)
HSetReplaces(st, key, mapping) == Put(st, key, mapping)

\* HSET key mapping: creates the key if it is missing, merges the fields
HSet(st, key, mapping) == Put(st, key, Merge(mapping, Get(st, key, EmptyMap)))

\* HGETALL key: the empty map for a missing key
HGetAll(st, key) == Get(st, key, EmptyMap)

\* EXPIRE key seconds: sets the deadline of an existing key
Expire(st, tt, key, deadline) == IF key \in DOMAIN st THEN Put(tt, key, deadline) ELSE tt

\* a push at the head of the list (LPUSH), where RPUSH is meant
LPushInstead(qs, name, payload) == [qs EXCEPT ![name] = <<payload>> \o @]

\* RPUSH list payload: appends at the tail
RPush(qs, name, payload) == [qs EXCEPT ![name] = Append(@, payload)]

\* LLEN list
LLen(qs, name) == Len(qs[name])

\* keys whose deadline has been reached at time t are gone
Expired(tt, t) == {k \in DOMAIN tt : tt[k] <= t}

PurgeState(st, tt, t) == [k \in DOMAIN st \ Expired(tt, t) |-> st[k]]

PurgeTtl(tt, t) == [k \in DOMAIN tt \ Expired(tt, t) |-> tt[k]]

-----------------------------------------------------------------------------
(* RedisOrchestrator *)

\* job_id = f"{video_id}_{int(time.time() * 1000)}"
JobId(video_id, t) == <<video_id, t>>

\* asdict(PipelineJob(...)): the fields and their defaults
AsDict(job_id, video_id, emotion, intensity, metadata, t) ==
    [job_id |-> job_id, video_id |-> video_id, emotion |-> emotion,
     intensity |-> intensity, status |-> IDLE, created_at |-> t,
     started_at |-> NoneT, completed_at |-> NoneT,
     metadata |-> IF metadata = NoneStr THEN "{}" ELSE metadata]

\* The world a handler runs in, and what it leaves
World == [state |-> state, ttl |-> ttl, queues |-> queues, stats |-> stats, now |-> now]

Outcome(w, ret, job_id, exc) ==
    [state |-> w.state, ttl |-> w.ttl, queues |-> w.queues, stats |-> w.stats,
     now |-> w.now, ret |-> ret, job_id |-> job_id, exc |-> exc]

AsWorld(r) == [state |-> r.state, ttl |-> r.ttl, queues |-> r.queues, stats |-> r.stats,
               now |-> r.now]

\* submit_job: HSET, EXPIRE, RPUSH.  fail = k > 0: the k-th command raises.
SubmitJob(w, video_id, emotion, intensity, metadata, fail) ==
    LET job_id == JobId(video_id, w.now)
        job == AsDict(job_id, video_id, emotion, intensity, metadata, w.now)
        st1 == IF fail = 1 THEN w.state ELSE HSet(w.state, job_id, job)
        tt1 == IF fail \in {1, 2} THEN w.ttl
               ELSE Expire(st1, w.ttl, job_id, w.now + JobTTL)
        qs1 == IF fail \in {1, 2, 3} THEN w.queues
               ELSE RPush(w.queues, "oracle", job)
        w1 == [w EXCEPT !.state = st1, !.ttl = tt1, !.queues = qs1]
    IN  IF fail = 0 THEN Outcome(w1, "job_id", job_id, NoneStr)
        ELSE Outcome(w1, "raised", NoJob, ConnectionError)

\* get_job_status: job_data if job_data else None (None is the empty map here)
GetJobStatus(st, job_id) == HGetAll(st, job_id)

\* the mapping of an update_job_status that forgets completed_at
UpdateMappingNoCompletion(status, service, error, t) ==
    LET update == [status |-> status, updated_at |-> t]
    IN  IF status = PROCESSING /\ service # NoneStr
        THEN [status |-> status, updated_at |-> t, current_service |-> service,
              started_at |-> t]
        ELSE IF status = FAILED /\ error # NoneStr
        THEN [status |-> status, updated_at |-> t, error |-> error]
        ELSE update

\* update_job_status: the mapping it writes
UpdateMapping(status, service, error, t) ==
    LET update == [status |-> status, updated_at |-> t]
    IN  IF status = PROCESSING /\ service # NoneStr
        THEN Merge([current_service |-> service, started_at |-> t], update)
        ELSE IF status = COMPLETED
        THEN Merge([completed_at |-> t], update)
        ELSE IF status = FAILED /\ error # NoneStr
        THEN Merge([error |-> error], update)
        ELSE update

UpdateJobStatus(st, job_id, status, service, error, t) ==
    HSet(st, job_id, UpdateMapping(status, service, error, t))

\* move_to_dlq: what it pushes for a job whose hash is job_data
DlqEntry(job_data, error, t) == Merge([error |-> error, moved_to_dlq_at |-> t], job_data)

\* a move_to_dlq that puts the job back on the first stage's queue for a retry
MoveToDlqRequeues(w, job_id, error, hfail) ==
    LET job_data == HGetAll(w.state, job_id)
    IN  IF hfail = 1 THEN Outcome(w, "raised", job_id, error)
        ELSE IF IsEmpty(job_data) THEN Outcome(w, "None", job_id, error)
        ELSE IF hfail = 2 THEN Outcome(w, "raised", job_id, error)
        ELSE Outcome([w EXCEPT !.queues = RPush(w.queues, "oracle",
                                                DlqEntry(job_data, error, w.now))],
                     "None", job_id, error)

\* a move_to_dlq that pushes an entry whether the job has a hash or not
MoveToDlqAlways(w, job_id, error, hfail) ==
    LET job_data == HGetAll(w.state, job_id)
    IN  IF hfail = 1 THEN Outcome(w, "raised", job_id, error)
        ELSE IF hfail = 2 THEN Outcome(w, "raised", job_id, error)
        ELSE Outcome([w EXCEPT !.queues = RPush(w.queues, "dlq",
                                                DlqEntry(job_data, error, w.now))],
                     "None", job_id, error)

\* move_to_dlq: HGETALL, then RPUSH when the hash is not empty.
\* hfail = k > 0: the k-th command raises.
MoveToDlq(w, job_id, error, hfail) ==
    LET job_data == HGetAll(w.state, job_id)
    IN  IF hfail = 1 THEN Outcome(w, "raised", job_id, error)
        ELSE IF IsEmpty(job_data) THEN Outcome(w, "None", job_id, error)
        ELSE IF hfail = 2 THEN Outcome(w, "raised", job_id, error)
        ELSE Outcome([w EXCEPT !.queues = RPush(w.queues, "dlq",
                                                DlqEntry(job_data, error, w.now))],
                     "None", job_id, error)

-----------------------------------------------------------------------------
(* EmotionalIndexManager, CinematographyEngine *)

\* get_all_emotions
GetAllEmotions == AllEmotions

\* a get_emotion_profile that takes the default intensity whatever is asked
ProfileOfDefaultIntensity(emotion, intensity) ==
    IF emotion \notin DOMAIN CameraMovement
    THEN [camera |-> CameraMovement["curiosity"], color |-> ColorPart["curiosity"],
          vfx |-> Vfx["curiosity"], vfx_is_list |-> FALSE]
    ELSE [emotion |-> emotion, intensity |-> "medium",
          camera |-> [movement |-> CameraMovement[emotion]["medium"]],
          color |-> ColorPart[emotion]["medium"],
          vfx |-> Vfx[emotion]["medium"],
          vfx_is_list |-> TRUE]

\* get_emotion_profile.  For an emotion of the index the camera part is
\* profile["camera"].get(intensity, {}) and the vfx part a list; for any other
\* emotion it returns the raw index entry of curiosity, whose camera and vfx
\* parts are dictionaries keyed by intensity.
GetEmotionProfile(emotion, intensity) ==
    IF emotion \notin DOMAIN CameraMovement
    THEN [camera |-> CameraMovement["curiosity"], color |-> ColorPart["curiosity"],
          vfx |-> Vfx["curiosity"], vfx_is_list |-> FALSE]
    ELSE [emotion |-> emotion, intensity |-> intensity,
          camera |-> IF intensity \in DOMAIN CameraMovement[emotion]
                     THEN [movement |-> CameraMovement[emotion][intensity]]
                     ELSE EmptyMap,
          color |-> IF intensity \in DOMAIN ColorPart[emotion]
                    THEN ColorPart[emotion][intensity]
                    ELSE EmptyMap,
          vfx |-> IF intensity \in DOMAIN Vfx[emotion]
                  THEN Vfx[emotion][intensity]
                  ELSE <<>>,
          vfx_is_list |-> TRUE]

\* validate_profile: camera, color and vfx are keys of every profile that
\* get_emotion_profile returns and camera and color are dictionaries; what can
\* fail is the camera's movement field and vfx being a list
ValidateProfile(profile) == "movement" \in DOMAIN profile.camera /\ profile.vfx_is_list

\* QualityGateValidator: the thresholds validate_output compares with (the
\* contrast and the vignette in hundredths) and the warnings it lets pass
MaxSaturationAdjust == 50
MaxContrast == 200
MaxVignette == 80
MaxWarnings == 2

Abs(x) == IF x < 0 THEN -x ELSE x

\* a validate_output that lets no warning pass
ValidateStrict(profile) ==
    LET color == Get(profile, "color", EmptyMap)
        w1 == IF Abs(Get(color, "saturation", 0)) > MaxSaturationAdjust
              THEN <<"saturation">> ELSE <<>>
        w2 == IF Get(color, "contrast", 100) > MaxContrast THEN <<"contrast">> ELSE <<>>
        w3 == IF Get(color, "vignette", 0) > MaxVignette THEN <<"vignette">> ELSE <<>>
    IN  [passes |-> Len(w1 \o w2 \o w3) = 0, warnings |-> w1 \o w2 \o w3]

\* validate_output(profile): (passes, warnings); a warning is named by the
\* field it is about
ValidateOutput(profile) ==
    LET color == Get(profile, "color", EmptyMap)
        w1 == IF Abs(Get(color, "saturation", 0)) > MaxSaturationAdjust
              THEN <<"saturation">> ELSE <<>>
        w2 == IF Get(color, "contrast", 100) > MaxContrast THEN <<"contrast">> ELSE <<>>
        w3 == IF Get(color, "vignette", 0) > MaxVignette THEN <<"vignette">> ELSE <<>>
        warnings == w1 \o w2 \o w3
    IN  [passes |-> Len(warnings) <= MaxWarnings, warnings |-> warnings]

-----------------------------------------------------------------------------
(* PipelineOrchestrator *)

ValidEmotion(emotion) == emotion \in GetAllEmotions

ValidIntensity(intensity) == intensity \in {"light", "medium", "heavy"}

IncStat(st, name) == [st EXCEPT ![name] = @ + 1]

\* a submit_video_job that validates nothing
SubmitUnchecked(w, available, video_id, emotion, intensity, metadata, fail) ==
    IF available
    THEN LET r == SubmitJob(w, video_id, emotion, intensity, metadata, fail)
         IN  IF r.ret = "raised"
             THEN [r EXCEPT !.ret = "None"]
             ELSE [r EXCEPT !.stats = IncStat(r.stats, "jobs_submitted")]
    ELSE Outcome([w EXCEPT !.stats = IncStat(w.stats, "jobs_submitted")],
                 "job_id", JobId(video_id, w.now), NoneStr)

\* a submit_video_job that writes to the store whether connected or not
SubmitAlwaysStores(w, available, video_id, emotion, intensity, metadata, fail) ==
    IF ~ValidEmotion(emotion) THEN Outcome(w, "None", NoJob, NoneStr)
    ELSE IF ~ValidIntensity(intensity) THEN Outcome(w, "None", NoJob, NoneStr)
    ELSE IF ~ValidateProfile(GetEmotionProfile(emotion, intensity))
    THEN Outcome(w, "None", NoJob, NoneStr)
    ELSE LET r == SubmitJob(w, video_id, emotion, intensity, metadata, fail)
         IN  IF r.ret = "raised"
             THEN [r EXCEPT !.ret = "None"]
             ELSE [r EXCEPT !.stats = IncStat(r.stats, "jobs_submitted")]

\* submit_video_job.  ret = "job_id": job_id is returned; ret = "None": None is.
SubmitVideoJob(w, available, video_id, emotion, intensity, metadata, fail) ==
    IF ~ValidEmotion(emotion) THEN Outcome(w, "None", NoJob, NoneStr)
    ELSE IF ~ValidIntensity(intensity) THEN Outcome(w, "None", NoJob, NoneStr)
    ELSE IF ~ValidateProfile(GetEmotionProfile(emotion, intensity))
    THEN Outcome(w, "None", NoJob, NoneStr)
    ELSE IF available
    THEN LET r == SubmitJob(w, video_id, emotion, intensity, metadata, fail)
         IN  IF r.ret = "raised"
             THEN [r EXCEPT !.ret = "None"]                 \* except Exception: return None
             ELSE [r EXCEPT !.stats = IncStat(r.stats, "jobs_submitted")]
    ELSE Outcome([w EXCEPT !.stats = IncStat(w.stats, "jobs_submitted")],
                 "job_id", JobId(video_id, w.now), NoneStr)

\* the first n PROCESSING updates of process_job, in order
RECURSIVE RecordStages(_, _, _, _)
RecordStages(st, job_id, n, t) ==
    IF n = 0 THEN st
    ELSE UpdateJobStatus(RecordStages(st, job_id, n - 1, t), job_id,
                         PROCESSING, RecordedStages[n], NoneStr, t)

NumStages == Len(RecordedStages)

\* an except clause that moves the job to the DLQ and counts nothing
ProcessFailedUncounted(w, available, job_id, error, hfail) ==
    IF available
    THEN LET r == MoveToDlq(w, job_id, error, hfail)
         IN  IF r.ret = "raised" THEN r ELSE [r EXCEPT !.ret = "False"]
    ELSE Outcome(w, "False", job_id, error)

\* process_job's except clause: count the failure, move the job to the DLQ
ProcessFailed(w, available, job_id, error, hfail) ==
    LET w1 == [w EXCEPT !.stats = IncStat(w.stats, "jobs_failed")]
    IN  IF available
        THEN LET r == MoveToDlq(w1, job_id, error, hfail)
             IN  IF r.ret = "raised" THEN r ELSE [r EXCEPT !.ret = "False"]
        ELSE Outcome(w1, "False", job_id, error)

\* a lookup result that is never taken for "job not found"
NeverNotFound(job_status) == FALSE

\* whether process_job treats the looked-up status as "job not found"
NotFound(job_status) == IsEmpty(job_status)

\* PipelineConfig.enable_quality_gates, as PipelineConfig() sets it
EnableQualityGates == TRUE

KeyError == "KeyError"                    \* str(e) of a dictionary lookup that raised

\* a quality gate whose validator reads profile["color"] and so raises when
\* it is handed a dictionary without that key
QualityGateStrictKeys(job_status) ==
    LET profile == GetEmotionProfile(Get(job_status, "emotion", NoneStr),
                                     Get(job_status, "intensity", NoneStr))
        color == Get(profile, "color", EmptyMap)
    IN  IF ~EnableQualityGates THEN "skipped"
        ELSE IF "color" \notin DOMAIN color THEN "raised"
        ELSE IF ValidateOutput(color).passes THEN "passed"
        ELSE "warned"

\* process_job's quality gate: validate_output is called with the color part
\* of the job's profile; a verdict that fails is logged ("warned").  "raised"
\* is an exception leaving the validator, which the code never raises.
QualityGate(job_status) ==
    LET profile == GetEmotionProfile(Get(job_status, "emotion", NoneStr),
                                     Get(job_status, "intensity", NoneStr))
        color == Get(profile, "color", EmptyMap)
    IN  IF ~EnableQualityGates THEN "skipped"
        ELSE IF ValidateOutput(color).passes THEN "passed"
        ELSE "warned"

\* process_job.  Its store commands are: 1 the lookup, 2..6 the PROCESSING
\* updates, 7 the COMPLETED update.  fail = k > 0: the k-th command raises;
\* hfail: the same for the commands of the except clause.  dt is the time the
\* call takes: the stages are recorded at w.now, the outcome at w.now + dt.
\* ret is "True", "False", or "raised" when the exception leaves process_job.
\* The quality gate runs after the last PROCESSING update; an exception that
\* leaves it is handled by the except clause as any other.
ProcessJob(w, available, job_id, fail, hfail, dt) ==
    LET t2 == w.now + dt
        job_status == GetJobStatus(w.state, job_id)
        n == IF fail = 0 \/ fail > NumStages + 1 THEN NumStages ELSE fail - 2
        staged == RecordStages(w.state, job_id, n, w.now)
        \* the clock reaches t2: keys whose deadline passed meanwhile are gone
        late == [w EXCEPT !.state = PurgeState(staged, w.ttl, t2),
                          !.ttl = PurgeTtl(w.ttl, t2), !.now = t2]
    IN  IF ~available THEN Outcome(w, "False", job_id, NoneStr)
        ELSE IF fail = 1
        THEN ProcessFailed([w EXCEPT !.state = PurgeState(w.state, w.ttl, t2),
                                     !.ttl = PurgeTtl(w.ttl, t2), !.now = t2],
                           available, job_id, ConnectionError, hfail)
        ELSE IF NotFound(job_status)
        THEN Outcome(w, "False", job_id, NoneStr)
        ELSE IF fail # 0 /\ fail <= NumStages + 1
        THEN ProcessFailed(late, available, job_id, ConnectionError, hfail)
        ELSE IF QualityGate(job_status) = "raised"
        THEN ProcessFailed(late, available, job_id, KeyError, hfail)
        ELSE IF fail # 0
        THEN ProcessFailed(late, available, job_id, ConnectionError, hfail)
        ELSE Outcome([late EXCEPT
                        !.state = UpdateJobStatus(late.state, job_id, COMPLETED,
                                                  NoneStr, NoneStr, t2),
                        !.stats = IncStat(late.stats, "jobs_completed")],
                     "True", job_id, NoneStr)

-----------------------------------------------------------------------------
(* The state after construction *)

NoResults == [total |-> 0, successful |-> 0, failed |-> 0, job_ids |-> <<>>]

\* last: the call the last step made (none when the step was not a call), with
\* its arguments, what it returned (ret), the exception it handled or raised
\* (exc) and, for batch_process, the results dictionary
NoCall == [op |-> "none", job_id |-> NoJob, arg1 |-> NoneStr, arg2 |-> NoneStr,
           ret |-> NoneStr, exc |-> NoneStr, results |-> NoResults]

Call(op, job_id, arg1, arg2, ret, exc) ==
    [op |-> op, job_id |-> job_id, arg1 |-> arg1, arg2 |-> arg2, ret |-> ret,
     exc |-> exc, results |-> NoResults]

\* batch: the batch_process call in progress (pc = "loop"): its list, the index
\* of the next spec and the results so far
NoBatch == [pc |-> "idle", jobs |-> <<>>, i |-> 1, results |-> NoResults]

\* a worker that is not inside a dequeue call; received is what its dequeue
\* calls returned so far, as <<service, payload>>
IdleWorker == [pc |-> "idle", service |-> NoneStr, timeout |-> 0, waited |-> FALSE,
               item |-> EmptyMap, received |-> <<>>]

\* PipelineOrchestrator.__init__: redis_available records whether the store
\* answered the constructor's ping
Init ==
    /\ state = EmptyMap
    /\ ttl = EmptyMap
    /\ queues = [q \in QueueNames |-> <<>>]
    /\ stats = [jobs_submitted |-> 0, jobs_completed |-> 0, jobs_failed |-> 0]
    /\ redis_available \in BOOLEAN
    /\ now = 0
    /\ last = NoCall
    /\ batch = NoBatch
    /\ workers = [w \in Workers |-> IdleWorker]
    /\ enqueued = [q \in QueueNames |-> <<>>]
    /\ delivered = [q \in QueueNames |-> <<>>]
    /\ vertices = 0

Apply(r) ==
    /\ state' = r.state
    /\ ttl' = r.ttl
    /\ queues' = r.queues
    /\ stats' = r.stats
    /\ now' = r.now

\* job ids a caller can hold
PayloadJobs ==
    UNION {{Get(queues[q][i], "job_id", NoJob) : i \in 1..Len(queues[q])} : q \in QueueNames}

KnownJobs == (DOMAIN state \cup PayloadJobs \cup {UnknownJob}) \ {NoJob}

\* the commands of a handler of n commands at which the store can raise
FailPoints(n) == 0..n

\* the fail points the model tries for process_job (none, the lookup, the
\* second stage, the COMPLETED update) and for reset_pipeline
ProcessFailInputs == {0, 1, 3, 7}
ResetFailInputs == {0, 1, 3, 8}

\* the time a call may take without leaving the clock's bound
Elapsed == IF now < MaxClock * ClockStep THEN {0, ClockStep} ELSE {0}

-----------------------------------------------------------------------------
(* The driver's calls *)

\* submit_video_job(video_id, emotion, intensity, metadata)
Submit(video_id, emotion, intensity, metadata, fail) ==
    /\ batch.pc # "loop"
    /\ stats.jobs_submitted < MaxSubmitted
    /\ Cardinality(DOMAIN state \cup {JobId(video_id, now)}) <= MaxJobs
    /\ LET r == SubmitVideoJob(World, redis_available, video_id, emotion,
                               intensity, metadata, fail)
       IN  /\ Apply(r)
           /\ last' = Call("submit_video_job", r.job_id, emotion, intensity, r.ret, r.exc)
    /\ UNCHANGED <<redis_available, batch>>
    /\ UNCHANGED clientVars

\* process_job(job_id)
Process(job_id, fail, hfail, dt) ==
    /\ batch.pc # "loop"
    /\ stats.jobs_completed + stats.jobs_failed < MaxProcessed
    /\ fail = 0 => hfail = 0
    /\ LET r == ProcessJob(World, redis_available, job_id, fail, hfail, dt)
       IN  /\ Apply(r)
           /\ last' = Call("process_job", job_id, NoneStr, NoneStr, r.ret, r.exc)
    /\ UNCHANGED <<redis_available, batch>>
    /\ UNCHANGED clientVars

\* the job specs batch_process is called with: a spec may leave emotion and
\* intensity out
InputSpecs ==
    {[video_id |-> "video_001"],
     [video_id |-> "video_001", emotion |-> "not_an_emotion", intensity |-> "medium"]}

SpecLists == UNION {[1..n -> InputSpecs] : n \in 0..MaxBatch}

\* what batch_process returns, or "raised" when an exception leaves it
BatchReturn(pc, results) ==
    [op |-> "batch_process", job_id |-> NoJob, arg1 |-> NoneStr, arg2 |-> NoneStr,
     ret |-> IF pc = "raised" THEN "raised" ELSE "results", exc |-> NoneStr,
     results |-> results]

\* batch_process(jobs), up to its loop; an empty list returns at once
BatchStart(jobs) ==
    /\ batch.pc # "loop"
    /\ stats.jobs_submitted + Len(jobs) <= MaxSubmitted
    /\ stats.jobs_completed + stats.jobs_failed + Len(jobs) <= MaxProcessed
    /\ LET results == [total |-> Len(jobs), successful |-> 0, failed |-> 0,
                       job_ids |-> <<>>]
       IN  IF Len(jobs) = 0
           THEN /\ batch' = NoBatch
                /\ last' = BatchReturn("done", results)
           ELSE /\ batch' = [pc |-> "loop", jobs |-> jobs, i |-> 1, results |-> results]
                /\ last' = NoCall
    /\ UNCHANGED <<state, ttl, queues, stats, redis_available, now>>
    /\ UNCHANGED clientVars

\* one round of batch_process's loop: submit the spec, process the job.  The
\* call ends after the last spec ("done"), or when an exception leaves
\* process_job and so batch_process ("raised").
BatchStep(sfail, pfail, hfail, dt) ==
    /\ batch.pc = "loop"
    /\ Cardinality(DOMAIN state \cup {JobId(batch.jobs[batch.i].video_id, now)}) <= MaxJobs
    /\ LET job_spec == batch.jobs[batch.i]
           video_id == Get(job_spec, "video_id", NoneStr)
           emotion == Get(job_spec, "emotion", "curiosity")
           intensity == Get(job_spec, "intensity", "medium")
           r1 == SubmitVideoJob(World, redis_available, video_id, emotion,
                                intensity, NoneStr, sfail)
           submitted == r1.ret = "job_id"
           r2 == ProcessJob(AsWorld(r1), redis_available, r1.job_id, pfail, hfail, dt)
           r == IF submitted THEN r2 ELSE r1
           res == batch.results
           res1 == IF submitted
                   THEN [res EXCEPT !.job_ids = Append(@, r1.job_id)]
                   ELSE [res EXCEPT !.failed = @ + 1]
           res2 == IF ~submitted \/ r2.ret = "raised" THEN res1
                   ELSE IF r2.ret = "True" THEN [res1 EXCEPT !.successful = @ + 1]
                   ELSE [res1 EXCEPT !.failed = @ + 1]
           pc == IF submitted /\ r2.ret = "raised" THEN "raised"
                 ELSE IF batch.i = Len(batch.jobs) THEN "done"
                 ELSE "loop"
       IN  /\ sfail \in FailPoints(3)
           /\ IF submitted THEN pfail \in FailPoints(NumStages + 2)
                           ELSE pfail = 0 /\ dt = 0
           /\ pfail = 0 => hfail = 0
           /\ Apply(r)
           /\ IF pc = "loop"
              THEN /\ batch' = [batch EXCEPT !.results = res2, !.i = @ + 1]
                   /\ last' = NoCall
              ELSE /\ batch' = NoBatch
                   /\ last' = BatchReturn(pc, res2)
    /\ UNCHANGED redis_available
    /\ UNCHANGED clientVars

-----------------------------------------------------------------------------
(* The calls workers and operators make on RedisOrchestrator *)

\* the status reports a worker or an operator sends
UpdateInputs ==
    {<<PROCESSING, "trickster", NoneStr>>,
     <<COMPLETED, NoneStr, NoneStr>>,
     <<FAILED, NoneStr, WorkerError>>,
     <<PAUSED, NoneStr, NoneStr>>}

\* a pop at the tail of the list (RPOP), where BLPOP is meant
PopTailInstead(qs, name) ==
    [qs EXCEPT ![name] = IF @ = <<>> THEN @ ELSE SubSeq(@, 1, Len(@) - 1)]

\* a read of the head that leaves it in the list
PeekInstead(qs, name) == qs

\* BLPOP list: the list without its head
BLPop(qs, name) == [qs EXCEPT ![name] = Tail(@)]

\* A worker's round on a stage queue: dequeue(service) returns the head, the
\* worker does the stage's work and reports with
\* update_job_status(job_id, status, service, error)
Work(service, status, current, error) ==
    /\ queues[service] # <<>>
    /\ LET job_data == Head(queues[service])
           job_id == Get(job_data, "job_id", UnknownJob)
       IN  /\ Cardinality(DOMAIN state \cup {job_id}) <= MaxJobs
           /\ queues' = BLPop(queues, service)
           /\ state' = UpdateJobStatus(state, job_id, status, current, error, now)
    /\ last' = NoCall
    /\ UNCHANGED <<ttl, stats, redis_available, now, batch>>
    /\ UNCHANGED clientVars

\* the queues in the order reset_pipeline deletes them (self.queues.items())
QueueOrder == <<"oracle", "trickster", "cartographer", "spectacle", "ironist", "dlq">>

QueueIndex(q) == CHOOSE i \in 1..Len(QueueOrder) : QueueOrder[i] = q

\* a reset_pipeline that does not look at confirm
ResetUnconfirmed(confirm, fail, gone) ==
    /\ fail \in FailPoints(8)
    /\ (fail = 8) => (gone # DOMAIN state)
    /\ (fail # 8) => (gone = IF fail = 0 THEN DOMAIN state ELSE {})
    /\ queues' = [q \in QueueNames |->
                    IF fail = 0 \/ QueueIndex(q) < fail THEN <<>> ELSE queues[q]]
    /\ state' = [k \in DOMAIN state \ gone |-> state[k]]
    /\ ttl' = [k \in DOMAIN ttl \ gone |-> ttl[k]]
    /\ last' = Call("reset_pipeline", NoJob, IF confirm THEN "True" ELSE "False", NoneStr,
                    IF fail = 0 THEN "True" ELSE "False", NoneStr)
    /\ UNCHANGED <<stats, redis_available, now, batch>>
    /\ UNCHANGED clientVars

\* a reset_pipeline that deletes the stage queues and leaves the dead-letter
\* queue
ResetKeepsDlq(confirm, fail, gone) ==
    /\ ~confirm => /\ fail = 0
                   /\ gone = {}
    /\ confirm => /\ fail \in FailPoints(8)
                  /\ (fail = 8) => (gone # DOMAIN state)
                  /\ (fail # 8) => (gone = IF fail = 0 THEN DOMAIN state ELSE {})
    /\ queues' = IF ~confirm THEN queues
                 ELSE [q \in QueueNames |->
                         IF q # "dlq" /\ (fail = 0 \/ QueueIndex(q) < fail)
                         THEN <<>> ELSE queues[q]]
    /\ state' = [k \in DOMAIN state \ gone |-> state[k]]
    /\ ttl' = [k \in DOMAIN ttl \ gone |-> ttl[k]]
    /\ last' = Call("reset_pipeline", NoJob, IF confirm THEN "True" ELSE "False", NoneStr,
                    IF confirm /\ fail = 0 THEN "True" ELSE "False", NoneStr)
    /\ UNCHANGED <<stats, redis_available, now, batch>>
    /\ UNCHANGED clientVars

\* reset_pipeline(confirm).  Its commands: 1..6 the DEL of each queue, 7 the
\* scan of the job keys, then a DEL of each key.  fail = k in 1..7: the k-th
\* command raises; fail = 8: a DEL of a key raises, after the keys in gone
\* were deleted.
Reset(confirm, fail, gone) ==
    /\ ~confirm => /\ fail = 0
                   /\ gone = {}
    /\ confirm => /\ fail \in FailPoints(8)
                  /\ (fail = 8) => (gone # DOMAIN state)
                  /\ (fail # 8) => (gone = IF fail = 0 THEN DOMAIN state ELSE {})
    /\ queues' = IF ~confirm THEN queues
                 ELSE [q \in QueueNames |->
                         IF fail = 0 \/ QueueIndex(q) < fail THEN <<>> ELSE queues[q]]
    /\ state' = [k \in DOMAIN state \ gone |-> state[k]]
    /\ ttl' = [k \in DOMAIN ttl \ gone |-> ttl[k]]
    /\ last' = Call("reset_pipeline", NoJob, IF confirm THEN "True" ELSE "False", NoneStr,
                    IF confirm /\ fail = 0 THEN "True" ELSE "False", NoneStr)
    /\ UNCHANGED <<stats, redis_available, now, batch>>
    /\ UNCHANGED clientVars

-----------------------------------------------------------------------------
(* The calls of the workers on the queues: enqueue and the blocking dequeue *)

\* a dequeue call that finds nobody waiting
NobodyBlocked(service) == {}

\* the workers whose BLPOP on the service's list is waiting for an item
Blocked(service) ==
    {w \in Workers : workers[w].pc = "blocked" /\ workers[w].service = service}

\* BLPOP's timeout: 0 blocks until an item arrives
MayTimeOut(timeout) == timeout > 0

\* the payloads enqueue calls have pushed so far
NumEnqueued(qs, names) == Cardinality({<<q, i>> \in names \X (1..MaxEnqueued) : i <= Len(qs[q])})

\* an enqueue that reports success for a name that has no queue
EnqueueAcceptsAnyName(service, job_data, fail) ==
    /\ NumEnqueued(enqueued, QueueNames) < MaxEnqueued
    /\ IF service \notin QueueNames
       THEN /\ last' = Call("enqueue", NoJob, service, NoneStr, "True", NoneStr)
            /\ UNCHANGED <<queues, workers, enqueued, delivered>>
       ELSE IF fail
       THEN /\ last' = Call("enqueue", NoJob, service, NoneStr, "raised", ConnectionError)
            /\ UNCHANGED <<queues, workers, enqueued, delivered>>
       ELSE LET pushed == RPush(queues, service, job_data)
            IN  /\ last' = Call("enqueue", NoJob, service, NoneStr, "True", NoneStr)
                /\ enqueued' = [enqueued EXCEPT ![service] = Append(@, job_data)]
                /\ IF Blocked(service) = {}
                   THEN /\ queues' = pushed
                        /\ UNCHANGED <<workers, delivered>>
                   ELSE \E w \in Blocked(service) :
                          /\ queues' = BLPop(pushed, service)
                          /\ workers' = [workers EXCEPT ![w].pc = "served",
                                                        ![w].item = Head(pushed[service])]
                          /\ delivered' = [delivered EXCEPT
                                             ![service] = Append(@, Head(pushed[service]))]
    /\ UNCHANGED <<state, ttl, stats, redis_available, now, batch, vertices>>

\* enqueue(service, job_data): False for a name that has no queue; else RPUSH,
\* which raises when the store is unreachable (fail).  The store hands an
\* item pushed on a list with waiting BLPOPs to one of them at once.
Enqueue(service, job_data, fail) ==
    /\ NumEnqueued(enqueued, QueueNames) < MaxEnqueued
    /\ IF service \notin QueueNames
       THEN /\ last' = Call("enqueue", NoJob, service, NoneStr, "False", NoneStr)
            /\ UNCHANGED <<queues, workers, enqueued, delivered>>
       ELSE IF fail
       THEN /\ last' = Call("enqueue", NoJob, service, NoneStr, "raised", ConnectionError)
            /\ UNCHANGED <<queues, workers, enqueued, delivered>>
       ELSE LET pushed == RPush(queues, service, job_data)
            IN  /\ last' = Call("enqueue", NoJob, service, NoneStr, "True", NoneStr)
                /\ enqueued' = [enqueued EXCEPT ![service] = Append(@, job_data)]
                /\ IF Blocked(service) = {}
                   THEN /\ queues' = pushed
                        /\ UNCHANGED <<workers, delivered>>
                   ELSE \E w \in Blocked(service) :
                          /\ queues' = BLPop(pushed, service)
                          /\ workers' = [workers EXCEPT ![w].pc = "served",
                                                        ![w].item = Head(pushed[service])]
                          /\ delivered' = [delivered EXCEPT
                                             ![service] = Append(@, Head(pushed[service]))]
    /\ UNCHANGED <<state, ttl, stats, redis_available, now, batch, vertices>>

\* dequeue(service, timeout), up to BLPOP's answer: None at once for a name
\* that has no queue; BLPOP raises when the store is unreachable (fail), takes
\* the head of a list that has one, and waits on an empty list
DequeueCall(w, service, timeout, fail) ==
    /\ workers[w].pc = "idle"
    /\ IF service \notin QueueNames
       THEN /\ last' = Call("dequeue", NoJob, service, NoneStr, "None", NoneStr)
            /\ UNCHANGED <<queues, workers, delivered>>
       ELSE IF fail
       THEN /\ last' = Call("dequeue", NoJob, service, NoneStr, "raised", ConnectionError)
            /\ UNCHANGED <<queues, workers, delivered>>
       ELSE IF queues[service] # <<>>
       THEN /\ queues' = BLPop(queues, service)
            /\ workers' = [workers EXCEPT ![w].pc = "served", ![w].service = service,
                                          ![w].timeout = timeout,
                                          ![w].item = Head(queues[service])]
            /\ delivered' = [delivered EXCEPT ![service] = Append(@, Head(queues[service]))]
            /\ last' = NoCall
       ELSE /\ workers' = [workers EXCEPT ![w].pc = "blocked", ![w].service = service,
                                          ![w].timeout = timeout, ![w].waited = TRUE]
            /\ last' = NoCall
            /\ UNCHANGED <<queues, delivered>>
    /\ UNCHANGED <<state, ttl, stats, redis_available, now, batch, enqueued, vertices>>

\* the timeout of a waiting BLPOP expires: dequeue returns None
DequeueTimeout(w) ==
    /\ workers[w].pc = "blocked"
    /\ MayTimeOut(workers[w].timeout)
    /\ workers' = [workers EXCEPT ![w] = [IdleWorker EXCEPT !.received = workers[w].received]]
    /\ last' = Call("dequeue", NoJob, workers[w].service, NoneStr, "None", NoneStr)
    /\ UNCHANGED <<state, ttl, queues, stats, redis_available, now, batch,
                   enqueued, delivered, vertices>>

\* BLPOP has answered with an item: dequeue returns json.loads of it
DequeueReturn(w) ==
    /\ workers[w].pc = "served"
    /\ workers' = [workers EXCEPT
                     ![w] = [IdleWorker EXCEPT
                               !.received = Append(workers[w].received,
                                                   <<workers[w].service, workers[w].item>>)]]
    /\ last' = Call("dequeue", NoJob, workers[w].service, NoneStr, "item", NoneStr)
    /\ UNCHANGED <<state, ttl, queues, stats, redis_available, now, batch,
                   enqueued, delivered, vertices>>

\* get_queue_length: 0 for a name that has no queue, else LLEN
GetQueueLength(qs, service) == IF service \notin QueueNames THEN 0 ELSE LLen(qs, service)

\* get_queue_length(service); its LLEN raises when the store is unreachable
\* (fail)
QueueLength(service, fail) ==
    /\ last' = IF service \in QueueNames /\ fail
               THEN Call("get_queue_length", NoJob, service, NoneStr, "raised", ConnectionError)
               ELSE Call("get_queue_length", NoJob, service, NoneStr,
                         GetQueueLength(queues, service), NoneStr)
    /\ UNCHANGED <<state, ttl, queues, stats, redis_available, now, batch,
                   workers, enqueued, delivered, vertices>>

\* get_pipeline_metrics: the dictionary it returns
GetPipelineMetrics(w) ==
    [timestamp |-> w.now,
     queue_lengths |-> [q \in QueueNames |-> LLen(w.queues, q)],
     total_jobs |-> Cardinality(DOMAIN w.state),
     failed_jobs |-> Cardinality({k \in DOMAIN w.state :
                                    Get(w.state[k], "status", "unknown") = FAILED})]

\* the command of get_pipeline_metrics that raises (0: none): the first llen,
\* the scan of the job keys
MetricsFailInputs == {0, 1, Cardinality(QueueNames) + 1}

\* get_pipeline_metrics(); a command that raises is not caught
Metrics(fail) ==
    /\ last' = IF fail = 0
               THEN [Call("get_pipeline_metrics", NoJob, NoneStr, NoneStr, "metrics", NoneStr)
                       EXCEPT !.results = GetPipelineMetrics(World)]
               ELSE Call("get_pipeline_metrics", NoJob, NoneStr, NoneStr, "raised",
                         ConnectionError)
    /\ UNCHANGED <<state, ttl, queues, stats, redis_available, now, batch,
                   workers, enqueued, delivered, vertices>>

\* the color parts validate_output is called with: within and beyond each
\* threshold, with and without a vignette
InputColors ==
    {[saturation |-> sat, contrast |-> con, vignette |-> vig] :
        sat \in {20, -60, 100}, con \in {150, 300}, vig \in {40, 90}}
    \cup {[saturation |-> sat, contrast |-> con] : sat \in {20, 100}, con \in {150, 300}}

\* the profiles validate_output is called with: a profile with a color part,
\* a profile of the index, and a bare color part
InputProfiles ==
    {[color |-> c] : c \in InputColors}
    \cup {GetEmotionProfile(e, i) : e \in AllEmotions, i \in Intensities}
    \cup InputColors

\* get_emotion_profile(emotion, intensity)
Profile(emotion, intensity) ==
    /\ last' = [Call("get_emotion_profile", NoJob, emotion, intensity, "profile", NoneStr)
                  EXCEPT !.results = GetEmotionProfile(emotion, intensity)]
    /\ UNCHANGED <<state, ttl, queues, stats, redis_available, now, batch,
                   workers, enqueued, delivered, vertices>>

\* validate_output(profile)
Quality(profile) ==
    /\ last' = [Call("validate_output", NoJob, profile, NoneStr, "verdict", NoneStr)
                  EXCEPT !.results = ValidateOutput(profile)]
    /\ UNCHANGED <<state, ttl, queues, stats, redis_available, now, batch,
                   workers, enqueued, delivered, vertices>>

\* the emotional_vertices:* keys seed_redis writes: one per emotion and intensity
NumVertices == Cardinality(AllEmotions) * Cardinality(Intensities)

\* the number of emotional_vertices:* keys from which health_check reports the
\* emotional index as loaded
IndexLoadedMin == 24

\* the hset of seed_redis that raises (0: none): the first, the 24th, the 25th
SeedFailInputs == {0, 1, IndexLoadedMin, IndexLoadedMin + 1}

\* the llen of health_check's loop that raises (0: none): the first, the last
LLenFailInputs == {0, 1, Cardinality(QueueNames)}

\* a health_check that reports the store connected whatever ping did
HealthIgnoresPing(pingFails, llenFail, scanFails, count) ==
    [redis_connected |-> TRUE,
     queues_accessible |-> ~pingFails /\ llenFail = 0,
     emotional_index_loaded |-> ~pingFails /\ ~scanFails /\ count >= IndexLoadedMin]

\* health_check: the dictionary it returns.  pingFails, llenFail, scanFails:
\* what the store does to ping, to the llen commands and to the scan when
\* they are sent; count: the emotional_vertices:* keys in the store.
HealthCheck(pingFails, llenFail, scanFails, count) ==
    LET health == [redis_connected |-> FALSE, queues_accessible |-> FALSE,
                   emotional_index_loaded |-> FALSE]
        h1 == [health EXCEPT !.redis_connected = TRUE]
        h2 == IF llenFail = 0 THEN [h1 EXCEPT !.queues_accessible = TRUE] ELSE h1
        h3 == IF scanFails THEN h2
              ELSE [h2 EXCEPT !.emotional_index_loaded = count >= IndexLoadedMin]
    IN  IF pingFails THEN health ELSE h3

\* health_check(); last keeps what the store did to the three probes
Health(pingFails, llenFail, scanFails) ==
    /\ last' = [Call("health_check", NoJob, <<pingFails, llenFail, scanFails>>,
                     NoneStr, "health", NoneStr)
                  EXCEPT !.results = HealthCheck(pingFails, llenFail, scanFails, vertices)]
    /\ UNCHANGED <<state, ttl, queues, stats, redis_available, now, batch,
                   workers, enqueued, delivered, vertices>>

\* seed_redis() of an EmotionalIndexManager that has a client: one hset per
\* emotion and intensity, in the order of the index; the fail-th hset raises
\* and the exception leaves seed_redis
SeedRedis(fail) ==
    /\ LET written == IF fail = 0 THEN NumVertices ELSE fail - 1
       IN  vertices' = IF written > vertices THEN written ELSE vertices
    /\ last' = IF fail = 0
               THEN Call("seed_redis", NoJob, NoneStr, NoneStr, "True", NoneStr)
               ELSE Call("seed_redis", NoJob, NoneStr, NoneStr, "raised", ConnectionError)
    /\ UNCHANGED <<state, ttl, queues, stats, redis_available, now, batch,
                   workers, enqueued, delivered>>

\* submit_job(video_id, emotion, intensity, metadata) called on a
\* RedisOrchestrator of another process
SubmitDirect(video_id, emotion, intensity, metadata, fail) ==
    /\ Cardinality(DOMAIN state \cup {JobId(video_id, now)}) <= MaxJobs
    /\ Len(queues["oracle"]) < MaxSubmitted
    /\ LET r == SubmitJob(World, video_id, emotion, intensity, metadata, fail)
       IN  /\ Apply(r)
           /\ last' = Call("submit_job", r.job_id, emotion, intensity, r.ret, r.exc)
    /\ UNCHANGED <<redis_available, batch>>
    /\ UNCHANGED clientVars

\* submit_job interrupted: the process dies after its point-th store command
\* (1: the hset, 2: the expire) and before the rpush; nothing is returned
SubmitCrash(video_id, emotion, intensity, metadata, point) ==
    /\ Cardinality(DOMAIN state \cup {JobId(video_id, now)}) <= MaxJobs
    /\ LET r == SubmitJob(World, video_id, emotion, intensity, metadata, point + 1)
       IN  Apply(r)
    /\ last' = NoCall
    /\ UNCHANGED <<redis_available, batch>>
    /\ UNCHANGED clientVars

\* update_job_status(job_id, status, service, error), up to its store command:
\* the mapping is built, with the time of the call
UpdateCall(w, job_id, status, service, error) ==
    /\ workers[w].pc = "idle"
    /\ Cardinality(DOMAIN state \cup {job_id}) <= MaxJobs
    /\ workers' = [workers EXCEPT
                     ![w].pc = "update",
                     ![w].item = [job_id |-> job_id,
                                  update |-> UpdateMapping(status, service, error, now)]]
    /\ last' = NoCall
    /\ UNCHANGED <<state, ttl, queues, stats, redis_available, now, batch,
                   enqueued, delivered, vertices>>

\* update_job_status, its store command and its return: HSET of the mapping,
\* which raises when the store is unreachable (fail)
UpdateWrite(w, fail) ==
    /\ workers[w].pc = "update"
    /\ LET job_id == workers[w].item.job_id
           update == workers[w].item.update
       IN  /\ state' = IF fail THEN state ELSE HSet(state, job_id, update)
           /\ last' = Call("update_job_status", job_id, update, w,
                           IF fail THEN "raised" ELSE "None",
                           IF fail THEN ConnectionError ELSE NoneStr)
    /\ workers' = [workers EXCEPT ![w] = [IdleWorker EXCEPT !.received = workers[w].received]]
    /\ UNCHANGED <<ttl, queues, stats, redis_available, now, batch,
                   enqueued, delivered, vertices>>

\* update_job_status(job_id, status, service, error), the whole call; its
\* HSET raises when the store is unreachable (fail)
Update(job_id, status, service, error, fail) ==
    /\ Cardinality(DOMAIN state \cup {job_id}) <= MaxJobs
    /\ state' = IF fail THEN state
                ELSE UpdateJobStatus(state, job_id, status, service, error, now)
    /\ last' = Call("update_job_status", job_id, status, service,
                    IF fail THEN "raised" ELSE "None",
                    IF fail THEN ConnectionError ELSE NoneStr)
    /\ UNCHANGED <<ttl, queues, stats, redis_available, now, batch>>
    /\ UNCHANGED clientVars

\* submit_job, command by command, by a client w.  Its HSET: the job is built
\* with the time of the call and its record is written
SubmitHSet(w, video_id, emotion, intensity, metadata) ==
    /\ workers[w].pc = "idle"
    /\ Cardinality(DOMAIN state \cup {JobId(video_id, now)}) <= MaxJobs
    /\ Len(queues["oracle"]) < MaxSubmitted
    /\ LET job_id == JobId(video_id, now)
           job == AsDict(job_id, video_id, emotion, intensity, metadata, now)
       IN  /\ state' = HSet(state, job_id, job)
           /\ workers' = [workers EXCEPT ![w].pc = "expire", ![w].item = job]
    /\ last' = NoCall
    /\ UNCHANGED <<ttl, queues, stats, redis_available, now, batch,
                   enqueued, delivered, vertices>>

\* submit_job's EXPIRE
SubmitExpire(w) ==
    /\ workers[w].pc = "expire"
    /\ ttl' = Expire(state, ttl, workers[w].item.job_id, now + JobTTL)
    /\ workers' = [workers EXCEPT ![w].pc = "rpush"]
    /\ last' = NoCall
    /\ UNCHANGED <<state, queues, stats, redis_available, now, batch,
                   enqueued, delivered, vertices>>

\* submit_job's RPUSH, and its return
SubmitRPush(w) ==
    /\ workers[w].pc = "rpush"
    /\ queues' = RPush(queues, "oracle", workers[w].item)
    /\ workers' = [workers EXCEPT ![w] = [IdleWorker EXCEPT !.received = workers[w].received]]
    /\ last' = Call("submit_job", workers[w].item.job_id, workers[w].item.emotion,
                    workers[w].item.intensity, "job_id", NoneStr)
    /\ UNCHANGED <<state, ttl, stats, redis_available, now, batch,
                   enqueued, delivered, vertices>>

\* reset_pipeline(confirm=True), command by command, by a client w: the call
ResetCall(w) ==
    /\ workers[w].pc = "idle"
    /\ workers' = [workers EXCEPT ![w].pc = "del", ![w].item = [i |-> 1]]
    /\ last' = NoCall
    /\ UNCHANGED <<state, ttl, queues, stats, redis_available, now, batch,
                   enqueued, delivered, vertices>>

\* reset_pipeline's DEL of the next queue, in the order of self.queues
ResetDel(w) ==
    /\ workers[w].pc = "del"
    /\ LET i == workers[w].item.i
       IN  /\ queues' = [queues EXCEPT ![QueueOrder[i]] = <<>>]
           /\ workers' = IF i < Len(QueueOrder)
                          THEN [workers EXCEPT ![w].item = [i |-> i + 1]]
                          ELSE [workers EXCEPT ![w].pc = "scan"]
    /\ last' = NoCall
    /\ UNCHANGED <<state, ttl, stats, redis_available, now, batch,
                   enqueued, delivered, vertices>>

\* reset_pipeline's scan of the job keys
ResetScan(w) ==
    /\ workers[w].pc = "scan"
    /\ workers' = [workers EXCEPT ![w].pc = "keys", ![w].item = [keys |-> DOMAIN state]]
    /\ last' = NoCall
    /\ UNCHANGED <<state, ttl, queues, stats, redis_available, now, batch,
                   enqueued, delivered, vertices>>

\* reset_pipeline's DEL of one of the keys the scan found, and, when none is
\* left, its return
ResetDelKey(w) ==
    /\ workers[w].pc = "keys"
    /\ LET keys == workers[w].item.keys
       IN  IF keys = {}
           THEN /\ workers' = [workers EXCEPT
                                 ![w] = [IdleWorker EXCEPT !.received = workers[w].received]]
                /\ last' = Call("reset_pipeline", NoJob, "True", NoneStr, "True", NoneStr)
                /\ UNCHANGED <<state, ttl>>
           ELSE \E k \in keys :
                  /\ state' = [j \in DOMAIN state \ {k} |-> state[j]]
                  /\ ttl' = [j \in DOMAIN ttl \ {k} |-> ttl[j]]
                  /\ workers' = [workers EXCEPT ![w].item = [keys |-> keys \ {k}]]
                  /\ last' = NoCall
    /\ UNCHANGED <<queues, stats, redis_available, now, batch,
                   enqueued, delivered, vertices>>

\* a worker dies after dequeue returned and before it reports with
\* update_job_status: dequeue keeps no record of what it handed out
Crash(w) ==
    /\ workers[w].pc = "idle"
    /\ workers[w].received # <<>>
    /\ workers' = [workers EXCEPT ![w].pc = "crashed"]
    /\ last' = NoCall
    /\ UNCHANGED <<state, ttl, queues, stats, redis_available, now, batch,
                   enqueued, delivered, vertices>>

-----------------------------------------------------------------------------
(* The environment: the clock *)

\* 12 hours pass: keys whose deadline is reached are gone
Clock ==
    /\ now < MaxClock * ClockStep
    /\ now' = now + ClockStep
    /\ state' = PurgeState(state, ttl, now + ClockStep)
    /\ ttl' = PurgeTtl(ttl, now + ClockStep)
    /\ last' = NoCall
    /\ UNCHANGED <<queues, stats, redis_available, batch>>
    /\ UNCHANGED clientVars

-----------------------------------------------------------------------------

(* The driver: one PipelineOrchestrator, its operator and the clock *)

Next ==
    \/ \E video_id \in VideoIds, emotion \in InputEmotions,
          intensity \in InputIntensities, metadata \in InputMetadata,
          fail \in FailPoints(3) :
            Submit(video_id, emotion, intensity, metadata, fail)
    \/ \E job_id \in KnownJobs, fail \in ProcessFailInputs, hfail \in FailPoints(2),
          dt \in Elapsed :
            Process(job_id, fail, hfail, dt)
    \/ \E jobs \in SpecLists : BatchStart(jobs)
    \/ \E sfail \in FailPoints(3), pfail \in ProcessFailInputs, hfail \in FailPoints(2),
          dt \in Elapsed :
            BatchStep(sfail, pfail, hfail, dt)
    \/ \E confirm \in BOOLEAN, fail \in ResetFailInputs, gone \in SUBSET DOMAIN state :
            Reset(confirm, fail, gone)
    \/ Clock

Spec == Init /\ [][Next]_vars

(* The driver together with the workers that serve the stage queues *)

WorkerNext ==
    \/ \E video_id \in VideoIds, emotion \in InputEmotions \cap AllEmotions,
          intensity \in InputIntensities \cap Intensities, metadata \in InputMetadata,
          fail \in FailPoints(3) :
            Submit(video_id, emotion, intensity, metadata, fail)
    \/ \E job_id \in KnownJobs, fail \in ProcessFailInputs, hfail \in FailPoints(2),
          dt \in Elapsed :
            Process(job_id, fail, hfail, dt)
    \/ \E service \in StageQueues, u \in UpdateInputs : Work(service, u[1], u[2], u[3])
    \/ Clock

WorkerSpec == Init /\ [][WorkerNext]_vars

(* The workers on the queues.  A dequeue call that BLPOP has answered returns. *)

QueueNext ==
    \/ \E service \in InputServices, job_data \in InputPayloads, fail \in BOOLEAN :
            Enqueue(service, job_data, fail)
    \/ \E w \in Workers, service \in InputServices, timeout \in InputTimeouts,
          fail \in BOOLEAN :
            DequeueCall(w, service, timeout, fail)
    \/ \E w \in Workers : DequeueTimeout(w)
    \/ \E w \in Workers : DequeueReturn(w)

\* RedisOrchestrator's constructor has connected
QueueInit == Init /\ redis_available

QueueSpec ==
    /\ QueueInit
    /\ [][QueueNext]_vars
    /\ \A w \in Workers : WF_vars(DequeueReturn(w))

(* Submitted jobs, workers that dequeue them and die before they report *)

\* a submit_video_job call that succeeds with an id no record has
FreshSubmit(video_id, emotion, intensity, metadata) ==
    /\ JobId(video_id, now) \notin DOMAIN state
    /\ Submit(video_id, emotion, intensity, metadata, 0)

LossNext ==
    \/ \E video_id \in VideoIds, emotion \in InputEmotions \cap AllEmotions,
          intensity \in InputIntensities \cap Intensities, metadata \in InputMetadata :
            FreshSubmit(video_id, emotion, intensity, metadata)
    \/ \E w \in Workers, service \in InputServices, timeout \in InputTimeouts,
          fail \in BOOLEAN :
            DequeueCall(w, service, timeout, fail)
    \/ \E w \in Workers : DequeueTimeout(w)
    \/ \E w \in Workers : DequeueReturn(w)
    \/ \E w \in Workers : Crash(w)
    \/ Clock

LossSpec == QueueInit /\ [][LossNext]_vars

(* A PipelineOrchestrator in local mode beside a RedisOrchestrator of another
   process that reaches the store *)

\* PipelineOrchestrator's constructor could not connect
LocalInit == Init /\ ~redis_available

LocalNext ==
    \/ \E video_id \in VideoIds, emotion \in InputEmotions,
          intensity \in InputIntensities, metadata \in InputMetadata,
          fail \in FailPoints(3) :
            Submit(video_id, emotion, intensity, metadata, fail)
    \/ \E job_id \in KnownJobs, fail \in ProcessFailInputs, hfail \in FailPoints(2),
          dt \in Elapsed :
            Process(job_id, fail, hfail, dt)
    \/ \E video_id \in VideoIds, emotion \in InputEmotions \cap AllEmotions,
          intensity \in InputIntensities \cap Intensities, metadata \in InputMetadata,
          fail \in FailPoints(3) :
            SubmitDirect(video_id, emotion, intensity, metadata, fail)
    \/ Clock

LocalSpec == LocalInit /\ [][LocalNext]_vars

(* A connected PipelineOrchestrator and an operator who reads the metrics *)

MetricsNext ==
    \/ \E video_id \in VideoIds, emotion \in InputEmotions \cap AllEmotions,
          intensity \in InputIntensities \cap Intensities, metadata \in InputMetadata,
          fail \in FailPoints(3) :
            Submit(video_id, emotion, intensity, metadata, fail)
    \/ \E job_id \in KnownJobs, fail \in ProcessFailInputs, hfail \in FailPoints(2),
          dt \in Elapsed :
            Process(job_id, fail, hfail, dt)
    \/ \E fail \in MetricsFailInputs : Metrics(fail)
    \/ Clock

MetricsSpec == QueueInit /\ [][MetricsNext]_vars

(* Submits, of which some are interrupted, the process_job calls of the
   callers that were given a job id, and the workers on the stage queues *)

OrphanNext ==
    \/ \E video_id \in VideoIds, emotion \in InputEmotions \cap AllEmotions,
          intensity \in InputIntensities \cap Intensities, metadata \in InputMetadata,
          point \in {1, 2} :
            SubmitCrash(video_id, emotion, intensity, metadata, point)
    \/ \E video_id \in VideoIds, emotion \in InputEmotions \cap AllEmotions,
          intensity \in InputIntensities \cap Intensities, metadata \in InputMetadata :
            Submit(video_id, emotion, intensity, metadata, 0)
    \/ \E job_id \in PayloadJobs \ {NoJob}, fail \in ProcessFailInputs, dt \in Elapsed :
            Process(job_id, fail, 0, dt)
    \/ \E w \in Workers, timeout \in InputTimeouts :
            DequeueCall(w, "oracle", timeout, FALSE)
    \/ \E w \in Workers : DequeueTimeout(w)
    \/ \E w \in Workers : DequeueReturn(w)
    \/ Clock

OrphanSpec == QueueInit /\ [][OrphanNext]_vars

(* Workers and operators whose update_job_status calls on a job overlap *)

UpdateNext ==
    \/ \E video_id \in VideoIds, emotion \in InputEmotions \cap AllEmotions,
          intensity \in InputIntensities \cap Intensities, metadata \in InputMetadata :
            SubmitDirect(video_id, emotion, intensity, metadata, 0)
    \/ \E w \in Workers, job_id \in KnownJobs, u \in UpdateInputs :
            UpdateCall(w, job_id, u[1], u[2], u[3])
    \/ \E w \in Workers, fail \in BOOLEAN : UpdateWrite(w, fail)
    \/ Clock

UpdateSpec == QueueInit /\ [][UpdateNext]_vars

(* A connected PipelineOrchestrator, and workers and operators that report
   statuses, within the clock's resolution *)

FrameNext ==
    \/ \E video_id \in VideoIds, emotion \in InputEmotions \cap AllEmotions,
          intensity \in InputIntensities \cap Intensities, metadata \in InputMetadata :
            Submit(video_id, emotion, intensity, metadata, 0)
    \/ \E job_id \in KnownJobs, fail \in ProcessFailInputs, hfail \in FailPoints(2) :
            Process(job_id, fail, hfail, 0)
    \/ \E job_id \in KnownJobs, u \in UpdateInputs, fail \in BOOLEAN :
            Update(job_id, u[1], u[2], u[3], fail)

FrameSpec == QueueInit /\ [][FrameNext]_vars

(* Clients that submit and an operator who resets, one store command at a
   time *)

RaceNext ==
    \/ \E w \in Workers, video_id \in VideoIds, emotion \in InputEmotions \cap AllEmotions,
          intensity \in InputIntensities \cap Intensities, metadata \in InputMetadata :
            SubmitHSet(w, video_id, emotion, intensity, metadata)
    \/ \E w \in Workers : SubmitExpire(w)
    \/ \E w \in Workers : SubmitRPush(w)
    \/ \E w \in Workers : ResetCall(w)
    \/ \E w \in Workers : ResetDel(w)
    \/ \E w \in Workers : ResetScan(w)
    \/ \E w \in Workers : ResetDelKey(w)
    \/ Clock

RaceSpec == QueueInit /\ [][RaceNext]_vars

(* Workers that call the queue operations with names that have a queue and
   with a name that has none *)

\* the service names the workers use: the first stage, and alchemist
NameInputs == {"oracle", "alchemist"}

NameNext ==
    \/ \E service \in NameInputs, job_data \in InputPayloads, fail \in BOOLEAN :
            Enqueue(service, job_data, fail)
    \/ \E w \in Workers, service \in NameInputs, timeout \in InputTimeouts,
          fail \in BOOLEAN :
            DequeueCall(w, service, timeout, fail)
    \/ \E w \in Workers : DequeueTimeout(w)
    \/ \E w \in Workers : DequeueReturn(w)
    \/ \E service \in NameInputs, fail \in BOOLEAN : QueueLength(service, fail)

NameSpec == QueueInit /\ [][NameNext]_vars

(* The emotional index and the quality gate, called on their own *)

EngineNext ==
    \/ \E emotion \in AllEmotions \cup InputEmotions,
          intensity \in Intensities \cup InputIntensities :
            Profile(emotion, intensity)
    \/ \E profile \in InputProfiles : Quality(profile)

EngineSpec == Init /\ [][EngineNext]_vars

(* A RedisOrchestrator that submits and checks health, and an
   EmotionalIndexManager that seeds the store *)

HealthNext ==
    \/ \E video_id \in VideoIds, emotion \in InputEmotions \cap AllEmotions,
          intensity \in InputIntensities \cap Intensities, metadata \in InputMetadata,
          fail \in FailPoints(3) :
            SubmitDirect(video_id, emotion, intensity, metadata, fail)
    \/ \E pingFails \in BOOLEAN, llenFail \in LLenFailInputs, scanFails \in BOOLEAN :
            Health(pingFails, llenFail, scanFails)
    \/ \E fail \in SeedFailInputs : SeedRedis(fail)
    \/ Clock

HealthSpec == QueueInit /\ [][HealthNext]_vars

-----------------------------------------------------------------------------
(* Properties *)

\* a timestamp field that holds a time
HasTime(job, field) == field \in DOMAIN job /\ job[field] # NoneT

\* the positions of the dead-letter queue whose entry carries job_id
DlqEntries(qs, job_id) ==
    {i \in 1..Len(qs["dlq"]) : Get(qs["dlq"][i], "job_id", NoJob) = job_id}

\* 24 hours, in milliseconds
DayMs == 24 * 60 * 60 * 1000

\* the transitions the state machine allows
AllowedEdges ==
    {<<IDLE, PROCESSING>>, <<PROCESSING, COMPLETED>>, <<PROCESSING, FAILED>>,
     <<PROCESSING, PAUSED>>, <<PAUSED, PROCESSING>>}

\* the statuses one allowed transition, or none, leads to from those of S
OneEdge(S) == S \cup {e[2] : e \in {d \in AllowedEdges : d[1] \in S}}

\* the statuses a sequence of allowed transitions leads to from status s
AllowedFrom(s) == OneEdge(OneEdge(OneEdge(OneEdge({s}))))

\* C1: a submit_video_job call whose emotion is not one of the twelve of the
\* index, or whose intensity is not light, medium or heavy, returns no job id,
\* creates no state record and no expiry, leaves the length and the content of
\* all six queues as they were and leaves jobs_submitted (and the other
\* counters) unchanged.
C1_InvalidSubmitNoEffect ==
    [][\A video_id \in VideoIds, emotion \in InputEmotions,
          intensity \in InputIntensities, metadata \in InputMetadata,
          fail \in FailPoints(3) :
            (/\ emotion \notin AllEmotions \/ intensity \notin Intensities
             /\ last'.op = "submit_video_job"
             /\ Submit(video_id, emotion, intensity, metadata, fail))
            => /\ last'.ret = "None"
               /\ last'.job_id = NoJob
               /\ state' = state
               /\ ttl' = ttl
               /\ queues' = queues
               /\ stats' = stats]_vars

\* an invalid submit has just returned, in a state where there is a state
\* record and a queued snapshot that it could have disturbed
C1_Witness ==
    /\ last.op = "submit_video_job"
    /\ (last.arg1 \notin AllEmotions \/ last.arg2 \notin Intensities)
    /\ last.ret = "None"
    /\ DOMAIN state # {}
    /\ queues["oracle"] # <<>>

\* C2: a submit_video_job call with a valid emotion and a valid intensity, made
\* by an orchestrator connected to the store and with every store command
\* answered, returns a job id; the state record of that id is then not empty,
\* has status idle and expires 24 hours after the call; the oracle queue is
\* the old oracle queue with one snapshot of the job appended at its tail; the
\* other five queues are unchanged.
C2_ValidSubmitStoresAndEnqueues ==
    [][\A video_id \in VideoIds, emotion \in InputEmotions,
          intensity \in InputIntensities, metadata \in InputMetadata :
            (/\ emotion \in AllEmotions
             /\ intensity \in Intensities
             /\ redis_available
             /\ last'.op = "submit_video_job"
             /\ Submit(video_id, emotion, intensity, metadata, 0))
            => LET job_id == last'.job_id
                   before == queues["oracle"]
                   after == queues'["oracle"]
               IN  /\ last'.ret = "job_id"
                   /\ job_id # NoJob
                   /\ job_id \in DOMAIN state'
                   /\ ~IsEmpty(state'[job_id])
                   /\ state'[job_id].status = IDLE
                   /\ job_id \in DOMAIN ttl'
                   /\ ttl'[job_id] = now + DayMs
                   /\ Len(after) = Len(before) + 1
                   /\ SubSeq(after, 1, Len(before)) = before
                   /\ after[Len(after)].job_id = job_id
                   /\ after[Len(after)].video_id = video_id
                   /\ after[Len(after)].emotion = emotion
                   /\ after[Len(after)].intensity = intensity
                   /\ after[Len(after)].status = IDLE
                   /\ \A q \in QueueNames \ {"oracle"} : queues'[q] = queues[q]]_vars

\* a valid submit has just returned its job id and its snapshot was appended
\* behind an earlier one
C2_Witness ==
    /\ last.op = "submit_video_job"
    /\ last.ret = "job_id"
    /\ redis_available
    /\ last.job_id \in DOMAIN state
    /\ Len(queues["oracle"]) >= 2
    /\ queues["oracle"][Len(queues["oracle"])].job_id = last.job_id

\* C3: a process_job call never takes the status of a job record to a status
\* that no sequence of allowed transitions (idle -> processing, processing ->
\* completed, processing -> failed, processing <-> paused) leads to from the
\* status the record had before the call: in particular it never takes a
\* completed or a failed record to another status.
C3_OnlyAllowedTransitions ==
    [][\A job_id \in KnownJobs, fail \in ProcessFailInputs, hfail \in FailPoints(2),
          dt \in Elapsed :
            (/\ job_id \in DOMAIN state
             /\ job_id \in DOMAIN state'
             /\ last'.op = "process_job"
             /\ Process(job_id, fail, hfail, dt))
            => state'[job_id].status \in AllowedFrom(state[job_id].status)]_vars

\* C4: a process_job call on a job that has a state record, made by an
\* orchestrator connected to the store and with every store command answered
\* (no stage raises), returns True and leaves the record with status completed
\* and completed_at set; started_at is set and at most completed_at, and
\* created_at is at most started_at, for the record of a submitted job that
\* does not expire while the call runs (in every case, the timestamps that the
\* record holds are in this order).
C4_CleanAdvanceCompletes ==
    [][\A job_id \in KnownJobs, dt \in Elapsed :
            (/\ redis_available
             /\ job_id \in DOMAIN state
             /\ last'.op = "process_job"
             /\ Process(job_id, 0, 0, dt))
            => /\ last'.ret = "True"
               /\ job_id \in DOMAIN state'
               /\ LET job == state'[job_id]
                      stays == job_id \in DOMAIN ttl => ttl[job_id] > now + dt
                  IN  /\ job.status = COMPLETED
                      /\ HasTime(job, "completed_at")
                      /\ job.completed_at = now'
                      /\ stays => HasTime(job, "started_at")
                      /\ HasTime(job, "started_at") => job.started_at <= job.completed_at
                      /\ (stays /\ HasTime(state[job_id], "created_at"))
                           => HasTime(job, "created_at")
                      /\ HasTime(job, "created_at")
                           => /\ HasTime(job, "started_at")
                              /\ job.created_at <= job.started_at]_vars

\* a clean process_job has just returned True for a submitted job, some time
\* after the job was created
C4_Witness ==
    /\ last.op = "process_job"
    /\ last.ret = "True"
    /\ last.job_id \in DOMAIN state
    /\ state[last.job_id].status = COMPLETED
    /\ HasTime(state[last.job_id], "created_at")
    /\ HasTime(state[last.job_id], "started_at")
    /\ state[last.job_id].created_at < state[last.job_id].completed_at

\* C5: when a process_job call on a job that has a state record finds a store
\* command of a stage raising and returns (the failure handler's own store
\* commands are answered and no time passes), the job's state record has
\* status failed and its error field holds the text of the failure.
C5_RaisedStageMarksFailed ==
    [][\A job_id \in KnownJobs, fail \in ProcessFailInputs \ {0, 1} :
            (/\ redis_available
             /\ job_id \in DOMAIN state
             /\ last'.op = "process_job"
             /\ Process(job_id, fail, 0, 0))
            => /\ last'.ret = "False"
               /\ job_id \in DOMAIN state'
               /\ state'[job_id].status = FAILED
               /\ "error" \in DOMAIN state'[job_id]
               /\ state'[job_id].error = last'.exc]_vars

\* C6: after a process_job call in which a stage raised for a job that has a
\* state record (the failure handler's own store commands are answered and no
\* time passes), the dead-letter queue holds exactly one entry with that
\* job_id, also when the call is a repeated one.
C6_ExactlyOneDlqEntry ==
    [][\A job_id \in KnownJobs, fail \in ProcessFailInputs \ {0, 1} :
            (/\ redis_available
             /\ job_id \in DOMAIN state
             /\ "job_id" \in DOMAIN state[job_id]
             /\ last'.op = "process_job"
             /\ Process(job_id, fail, 0, 0))
            => Cardinality(DlqEntries(queues', job_id)) = 1]_vars

\* C7: in every state in which no batch is running, every job record with
\* status failed has an entry with its job_id in the dead-letter queue.
C7_FailedHasDlqEntry ==
    batch.pc # "loop" =>
        \A job_id \in DOMAIN state :
            state[job_id].status = FAILED => DlqEntries(queues, job_id) # {}

\* C8: a process_job call on a job whose record has status completed writes
\* nothing to the record: status, current_service, started_at and completed_at
\* are what they were.
C8_CompletedIsTerminal ==
    [][\A job_id \in KnownJobs, fail \in ProcessFailInputs, hfail \in FailPoints(2),
          dt \in Elapsed :
            (/\ job_id \in DOMAIN state
             /\ state[job_id].status = COMPLETED
             /\ job_id \in DOMAIN state'
             /\ last'.op = "process_job"
             /\ Process(job_id, fail, hfail, dt))
            => \A field \in {"status", "current_service", "started_at", "completed_at"} :
                 /\ (field \in DOMAIN state'[job_id]) = (field \in DOMAIN state[job_id])
                 /\ field \in DOMAIN state[job_id]
                      => state'[job_id][field] = state[job_id][field]]_vars

\* C9: a process_job call for a job_id that has no state record (never
\* submitted, expired, or deleted by a reset) creates no state record and
\* modifies none, sets no expiry, changes no queue, the dead-letter queue
\* included, and does not return True; when the lookup is answered it returns
\* False and the counters are unchanged.
C9_AdvanceWithoutRecord ==
    [][\A job_id \in KnownJobs, fail \in ProcessFailInputs, hfail \in FailPoints(2),
          dt \in Elapsed :
            (/\ job_id \notin DOMAIN state
             /\ last'.op = "process_job"
             /\ last'.job_id = job_id
             /\ Process(job_id, fail, hfail, dt))
            => /\ job_id \notin DOMAIN state'
               /\ \A k \in DOMAIN state' : k \in DOMAIN state /\ state'[k] = state[k]
               /\ \A k \in DOMAIN ttl' : k \in DOMAIN ttl /\ ttl'[k] = ttl[k]
               /\ queues' = queues
               /\ last'.ret # "True"
               /\ fail # 1 => /\ last'.ret = "False"
                              /\ stats' = stats
                              /\ state' = state]_vars

\* process_job has just returned False for a job whose record has expired or
\* was deleted while its snapshot is still in a queue
C9_Witness ==
    /\ last.op = "process_job"
    /\ last.ret = "False"
    /\ redis_available
    /\ last.job_id \notin DOMAIN state
    /\ last.job_id \in PayloadJobs

\* C10: every batch_process call on a list of N job specs returns a result
\* with total = N and successful + failed = N.
C10_BatchCountsAddUp ==
    [][last'.op = "batch_process"
         => /\ last'.ret = "results"
            /\ last'.results.total = (IF batch.pc = "loop" THEN Len(batch.jobs) ELSE 0)
            /\ last'.results.successful + last'.results.failed = last'.results.total]_vars

\* C11: no exception ever leaves process_job, and so none leaves
\* batch_process: every process_job call returns True or False, and every
\* batch_process call returns its results.
C11_NoEscapingException ==
    last.op \in {"process_job", "batch_process"} => last.ret # "raised"

-----------------------------------------------------------------------------
(* The queues under the workers' calls *)

\* the occurrences of x in a sequence
Count(seq, x) == Cardinality({i \in 1..Len(seq) : seq[i] = x})

\* the occurrences of payload p of queue s in what dequeue returned
Returned(s, p) ==
    Cardinality({<<w, i>> \in Workers \X (1..MaxEnqueued) :
                    /\ i <= Len(workers[w].received)
                    /\ workers[w].received[i] = <<s, p>>})

\* the workers whose BLPOP on queue s has taken p and whose dequeue has not
\* returned yet
InFlight(s, p) ==
    {w \in Workers : /\ workers[w].pc = "served"
                     /\ workers[w].service = s
                     /\ workers[w].item = p}

\* C12: every queue is first-in first-out under every interleaving of
\* enqueue and dequeue: the payloads taken from a queue, in the order they
\* were taken, followed by the payloads still in it, are the payloads
\* enqueued on it in the order they were enqueued.
C12_QueuesAreFifo ==
    \A s \in QueueNames : enqueued[s] = delivered[s] \o queues[s]

C12_Witness ==
    \E s \in QueueNames :
        /\ Len(delivered[s]) >= 2
        /\ delivered[s][1] # delivered[s][2]
        /\ queues[s] # <<>>

\* C13: with workers blocked in dequeue on the same queue, every enqueued
\* payload goes to exactly one of them: each enqueued copy of a payload is
\* either still in the queue, or taken by one worker, or returned by one
\* dequeue call; none is returned twice and none is dropped.
C13_EachPayloadToExactlyOneWorker ==
    \A s \in QueueNames, p \in InputPayloads :
        Count(enqueued[s], p) =
            Count(queues[s], p) + Cardinality(InFlight(s, p)) + Returned(s, p)

C13_Witness ==
    \E w1, w2 \in Workers :
        /\ w1 # w2
        /\ workers[w1].pc = "served"
        /\ workers[w1].waited
        /\ workers[w2].pc = "blocked"
        /\ workers[w2].service = workers[w1].service

\* C15: a blocking dequeue returns only because BLPOP took an item from the
\* head (it returns that item) or because its positive timeout expired (it
\* returns None and the queue is as it was); a worker waits only on an empty
\* queue, so a timeout of 0 never returns while the queue is empty; an
\* enqueue on a queue where workers wait hands the item to one of them, and
\* that worker's dequeue eventually returns it.
C15_DequeueReturnsOnItemOrTimeout ==
    /\ [](\A w \in Workers :
            workers[w].pc = "blocked" => queues[workers[w].service] = <<>>)
    /\ [][\A w \in Workers :
            (workers[w].pc # "idle" /\ workers'[w].pc = "idle") =>
                \/ /\ workers[w].pc = "served"
                   /\ last'.ret = "item"
                   /\ workers'[w].received =
                        Append(workers[w].received,
                               <<workers[w].service, workers[w].item>>)
                \/ /\ workers[w].pc = "blocked"
                   /\ workers[w].timeout > 0
                   /\ last'.ret = "None"
                   /\ workers'[w].received = workers[w].received
                   /\ queues' = queues]_vars
    /\ [][\A s \in QueueNames :
            (/\ \E w \in Workers : workers[w].pc = "blocked" /\ workers[w].service = s
             /\ enqueued'[s] # enqueued[s]) =>
                \E w \in Workers :
                    /\ workers[w].pc = "blocked"
                    /\ workers[w].service = s
                    /\ workers'[w].pc = "served"
                    /\ workers'[w].item = enqueued'[s][Len(enqueued'[s])]]_vars
    /\ \A w \in Workers, p \in InputPayloads :
            (workers[w].pc = "served" /\ workers[w].item = p)
                ~> (/\ workers[w].received # <<>>
                    /\ workers[w].received[Len(workers[w].received)][2] = p)

C15_Witness ==
    \E w \in Workers :
        /\ workers[w].pc = "served"
        /\ workers[w].waited
        /\ workers[w].timeout = 0

\* the payloads a worker holds: the one BLPOP has handed to its dequeue call
\* and the ones its dequeue calls returned
Holds(w) ==
    {workers[w].received[i][2] : i \in 1..Len(workers[w].received)}
        \cup (IF workers[w].pc = "served" THEN {workers[w].item} ELSE {})

C16_AbsentAfterHorizon ==
    [][\A job_id \in DOMAIN state' :
         (job_id[1] \in VideoIds /\ job_id \notin DOMAIN state)
            => now' < job_id[2] + DayMs]_vars

\* C17: a submit_video_job call during which a store command raises returns
\* no job id, leaves jobs_submitted as it was and creates nothing: no state
\* record, no expiry and no queue entry.
C17_FailedSubmitCreatesNothing ==
    [][(last'.op = "submit_video_job" /\ last'.exc = ConnectionError)
          => /\ last'.ret = "None"
             /\ stats'.jobs_submitted = stats.jobs_submitted
             /\ state' = state
             /\ ttl' = ttl
             /\ queues' = queues]_vars

-----------------------------------------------------------------------------
(* Local mode and the health check *)

\* C18: an orchestrator constructed with the store unreachable stays in local
\* mode; in it a valid submit_video_job returns a job id and increments
\* jobs_submitted, process_job of any job id returns False and counts nothing,
\* and neither touches the store: state records, expiries and queues are as
\* they were, also when other clients have filled the store meanwhile.
C18_LocalModeOnlyAcknowledges ==
    [][~redis_available =>
         /\ ~redis_available'
         /\ (/\ last'.op = "submit_video_job"
             /\ ValidEmotion(last'.arg1)
             /\ ValidIntensity(last'.arg2))
                => /\ last'.ret = "job_id"
                   /\ last'.job_id \in {JobId(video_id, now) : video_id \in VideoIds}
                   /\ stats'.jobs_submitted = stats.jobs_submitted + 1
                   /\ UNCHANGED <<state, ttl, queues>>
         /\ last'.op = "process_job"
                => /\ last'.ret = "False"
                   /\ UNCHANGED <<state, ttl, queues, stats, now>>]_vars

C18_Witness ==
    /\ ~redis_available
    /\ stats.jobs_submitted > 0
    /\ last.op = "process_job"
    /\ last.job_id \in DOMAIN state
    /\ queues["oracle"] # <<>>

\* C19: health_check reports redis_connected = False whenever the ping
\* raises, whatever the queues and the emotional index in the store are.
C19_PingFailureReported ==
    (last.op = "health_check" /\ last.arg1[1]) => ~last.results.redis_connected

C19_Witness ==
    /\ last.op = "health_check"
    /\ last.arg1[1]
    /\ last.arg1[2] = 0
    /\ ~last.arg1[3]
    /\ vertices >= IndexLoadedMin
    /\ queues["oracle"] # <<>>

\* C20: the three probes of health_check are independent: each flag is the
\* outcome of its own probe, whatever the other probes did.
C20_ProbesAreIndependent ==
    last.op = "health_check" =>
        /\ last.results.redis_connected = ~last.arg1[1]
        /\ last.results.queues_accessible = (last.arg1[2] = 0)
        /\ last.results.emotional_index_loaded =
              (~last.arg1[3] /\ vertices >= IndexLoadedMin)

-----------------------------------------------------------------------------
(* reset_pipeline and get_pipeline_metrics *)

\* C21: reset_pipeline without confirmation returns False and changes
\* nothing: every queue, every state record and every expiry is as it was.
C21_UnconfirmedResetIsNoOp ==
    [][(last'.op = "reset_pipeline" /\ last'.arg1 = "False")
          => /\ last'.ret = "False"
             /\ UNCHANGED <<state, ttl, queues>>]_vars

C21_Witness ==
    /\ last.op = "reset_pipeline"
    /\ last.arg1 = "False"
    /\ state # EmptyMap
    /\ queues["oracle"] # <<>>
    /\ queues["dlq"] # <<>>

\* C22: when reset_pipeline(confirm = True) has returned True, the six
\* queues are empty and the store holds no job record and no expiry, so
\* get_job_status finds no job, whatever was submitted and processed before.
C22_ConfirmedResetClearsAll ==
    (last.op = "reset_pipeline" /\ last.ret = "True")
        => /\ \A q \in QueueNames : queues[q] = <<>>
           /\ state = EmptyMap
           /\ ttl = EmptyMap
           /\ \A job_id \in KnownJobs \cup {JobId(v, 0) : v \in VideoIds} :
                 IsEmpty(GetJobStatus(state, job_id))

C22_Witness ==
    /\ last.op = "reset_pipeline"
    /\ last.ret = "True"
    /\ stats.jobs_submitted > 0
    /\ stats.jobs_failed > 0

\* the key under which a metrics report counts the jobs of a status
StatusKey ==
    [idle |-> "idle_jobs", processing |-> "processing_jobs",
     completed |-> "completed_jobs", failed |-> "failed_jobs", paused |-> "paused_jobs"]

\* the live jobs of a status
LiveJobs(status) == {k \in DOMAIN state : Get(state[k], "status", "unknown") = status}

\* C23: the report of get_pipeline_metrics gives the length of every queue
\* and, for every status, the number of live jobs with that status: a job
\* that was submitted and advanced with success is counted under completed.
C23_MetricsCountJobsPerStatus ==
    (last.op = "get_pipeline_metrics" /\ last.ret = "metrics")
        => /\ \A q \in QueueNames : last.results.queue_lengths[q] = Len(queues[q])
           /\ \A status \in ServiceStatus :
                 LiveJobs(status) # {} =>
                    /\ StatusKey[status] \in DOMAIN last.results
                    /\ last.results[StatusKey[status]] = Cardinality(LiveJobs(status))

-----------------------------------------------------------------------------
(* The stages of process_job *)

\* the eight stages of the pipeline, in order
PipelineStages ==
    <<"oracle", "trickster", "cartographer", "spectacle", "ironist", "alchemist",
      "shadow", "catalyst">>

\* C24: process_job records each of the eight stages once and in order
\* before it writes completed, so the record of a job whose process_job
\* returned True names the eighth stage, catalyst, as the stage recorded
\* last, and every process_job call leaves one of the eight stages in
\* current_service.
C24_EightStagesRecorded ==
    (/\ last.op = "process_job"
     /\ last.job_id \in DOMAIN state
     /\ "current_service" \in DOMAIN state[last.job_id])
        => /\ \E n \in 1..Len(PipelineStages) :
                 state[last.job_id].current_service = PipelineStages[n]
           /\ last.ret = "True"
                => state[last.job_id].current_service = PipelineStages[Len(PipelineStages)]

-----------------------------------------------------------------------------
(* Job ids, timestamps, quality gates *)

\* C25: a job id names one job: the id a successful submit_video_job returns
\* is the id of no record in the store and of no snapshot in a queue, so a
\* submit never writes over the record of an earlier job and no two
\* snapshots of different submissions carry the same job_id.
C25_JobIdsAreUnique ==
    [][(last'.op = "submit_video_job" /\ last'.ret = "job_id")
          => /\ last'.job_id \notin DOMAIN state
             /\ last'.job_id \notin PayloadJobs]_vars

\* C26: in every record of every reachable state the timestamps are ordered:
\* created_at <= started_at when started_at is set, and started_at <=
\* completed_at when both are set.
C26_TimestampsAreOrdered ==
    \A job_id \in DOMAIN state :
        /\ (HasTime(state[job_id], "created_at") /\ HasTime(state[job_id], "started_at"))
              => state[job_id].created_at <= state[job_id].started_at
        /\ (HasTime(state[job_id], "started_at") /\ HasTime(state[job_id], "completed_at"))
              => state[job_id].started_at <= state[job_id].completed_at

\* C28: for each of the 12 archetypes and each of the 3 intensities
\* get_emotion_profile returns a profile with a non-empty camera part, a
\* non-empty color part and a non-empty vfx list, which carries the emotion
\* and the intensity that were asked for.
C28_EveryProfileIsComplete ==
    /\ AllEmotions = {"curiosity", "fear", "triumph", "tension", "wonder", "urgency",
                      "melancholy", "romance", "joy", "nostalgia", "rage", "serenity"}
    /\ Intensities = {"light", "medium", "heavy"}
    /\ (/\ last.op = "get_emotion_profile"
        /\ last.arg1 \in AllEmotions
        /\ last.arg2 \in Intensities)
          => /\ {"emotion", "intensity", "camera", "color", "vfx"} \subseteq DOMAIN last.results
             /\ last.results.emotion = last.arg1
             /\ last.results.intensity = last.arg2
             /\ DOMAIN last.results.camera # {}
             /\ DOMAIN last.results.color # {}
             /\ last.results.vfx_is_list
             /\ Len(last.results.vfx) > 0

C28_Witness ==
    /\ last.op = "get_emotion_profile"
    /\ last.arg1 = "serenity"
    /\ last.arg2 = "heavy"
    /\ last.results.color.grade = "zen_garden"

\* the threshold checks a profile's color part exceeds
Exceeded(profile) ==
    LET color == Get(profile, "color", EmptyMap)
    IN  {f \in {"saturation", "contrast", "vignette"} :
           /\ f \in DOMAIN color
           /\ \/ f = "saturation" /\ (color[f] > 50 \/ color[f] < -50)
              \/ f = "contrast" /\ color[f] > 200
              \/ f = "vignette" /\ color[f] > 80}

\* C29: validate_output raises one warning for each threshold the color part
\* of the profile exceeds (|saturation| > 50, contrast > 2.0, vignette > 0.8)
\* and passes exactly when at most 2 warnings were raised: within all
\* thresholds it passes without a warning, beyond all three it rejects with
\* three warnings.
C29_GatePassesUpToTwoWarnings ==
    last.op = "validate_output" =>
        /\ Len(last.results.warnings) = Cardinality(Exceeded(last.arg1))
        /\ last.results.passes = (Cardinality(Exceeded(last.arg1)) <= 2)
        /\ Exceeded(last.arg1) = {} => last.results.passes /\ last.results.warnings = <<>>
        /\ Cardinality(Exceeded(last.arg1)) = 3
              => ~last.results.passes /\ Len(last.results.warnings) = 3

C29_Witness ==
    /\ last.op = "validate_output"
    /\ Cardinality(Exceeded(last.arg1)) = 2
    /\ last.results.passes

\* C27: a quality warning never blocks completion.  With quality gates
\* enabled, a process_job call on a job that has a record, with every store
\* command answered, returns True and leaves the job completed whatever the
\* verdict of the quality gate is; it puts nothing on the dead-letter queue
\* and counts one job completed and none failed.
C27_QualityGateNeverBlocks ==
    [][\A job_id \in KnownJobs, dt \in Elapsed :
            (/\ EnableQualityGates
             /\ redis_available
             /\ job_id \in DOMAIN state
             /\ last'.op = "process_job"
             /\ Process(job_id, 0, 0, dt))
            => /\ last'.ret = "True"
               /\ job_id \in DOMAIN state'
               /\ state'[job_id].status = COMPLETED
               /\ queues'["dlq"] = queues["dlq"]
               /\ stats'.jobs_failed = stats.jobs_failed
               /\ stats'.jobs_completed = stats.jobs_completed + 1]_vars

C27_Witness ==
    /\ EnableQualityGates
    /\ last.op = "process_job"
    /\ last.ret = "True"
    /\ last.job_id \in DOMAIN state
    /\ QualityGate(state[last.job_id]) = "passed"
    /\ state[last.job_id].status = COMPLETED
    /\ stats.jobs_completed = 1
    /\ stats.jobs_failed = 0
    /\ queues["dlq"] = <<>>

\* the jobs whose snapshot a worker holds
HeldJobs == UNION {{Get(p, "job_id", NoJob) : p \in Holds(w)} : w \in Workers}

\* a job that has a record and whose snapshot is in no queue and was handed
\* to no worker: the record an interrupted submit leaves
Orphan(job_id) ==
    /\ job_id \in DOMAIN state
    /\ state[job_id].status = IDLE
    /\ job_id \notin PayloadJobs
    /\ job_id \notin HeldJobs

\* C30: a submit interrupted after its state write and before its push
\* leaves a record with status idle and no snapshot in any queue, and from
\* then on nothing enqueues the job: no step puts a snapshot with its id in
\* a queue or hands one to a worker.
C30_OrphanIsNeverEnqueued ==
    [][\A job_id \in DOMAIN state :
          Orphan(job_id) => (job_id \notin PayloadJobs' /\ job_id \notin HeldJobs')]_vars

-----------------------------------------------------------------------------
(* Concurrent updates, frame effects and the records' expiry *)

\* C31: update_job_status calls on one job that overlap all succeed and are
\* merged in the order of their store writes, with no conflict detection: a
\* write that the store accepts returns None, leaves in the record the fields
\* and values of its mapping (so the status is that of the write applied
\* last) and keeps every other field the record had, whoever wrote it.
C31_LastWriteWinsWithMerge ==
    [][last'.op = "update_job_status" /\ last'.exc = NoneStr
          => LET job_id == last'.job_id
                 update == last'.arg1
                 before == Get(state, job_id, EmptyMap)
             IN  /\ last'.ret = "None"
                 /\ job_id \in DOMAIN state'
                 /\ \A f \in DOMAIN update : state'[job_id][f] = update[f]
                 /\ \A f \in DOMAIN before \ DOMAIN update :
                       /\ f \in DOMAIN state'[job_id]
                       /\ state'[job_id][f] = before[f]
                 /\ DOMAIN state'[job_id] = DOMAIN before \cup DOMAIN update]_vars

\* a record whose status is processing and that holds a completed_at later
\* than its updated_at: the call that reported PROCESSING began before the
\* call that reported COMPLETED, and its write was applied after
C31_Witness ==
    /\ last.op = "update_job_status"
    /\ last.ret = "None"
    /\ last.job_id \in DOMAIN state
    /\ LET job == state[last.job_id]
       IN  /\ job.status = PROCESSING
           /\ HasTime(job, "completed_at")
           /\ job.completed_at > job.updated_at

\* C32: job-state progress never touches the stage queues: an
\* update_job_status call and a process_job call, whether it succeeds or
\* fails, leave the content and the order of the five stage queues as they
\* were (the snapshot pushed at submit is not popped, nothing is pushed for a
\* retry or for the next stage); process_job changes the dead-letter queue
\* only when it fails, and then by appending, and update_job_status leaves it
\* alone.
C32_ProgressLeavesStageQueues ==
    [][last'.op \in {"update_job_status", "process_job"}
          => /\ \A q \in StageQueues : queues'[q] = queues[q]
             /\ last'.op = "update_job_status" => queues' = queues
             /\ queues'["dlq"] # queues["dlq"]
                  => /\ last'.ret \in {"False", "raised"}
                     /\ last'.exc # NoneStr
                     /\ Len(queues'["dlq"]) = Len(queues["dlq"]) + 1
                     /\ SubSeq(queues'["dlq"], 1, Len(queues["dlq"])) = queues["dlq"]]_vars

\* a process_job call has failed and moved its job to the dead-letter queue
\* while the job's snapshot is still on the oracle queue
C32_Witness ==
    /\ last.op = "process_job"
    /\ last.exc # NoneStr
    /\ DlqEntries(queues, last.job_id) # {}
    /\ \E i \in 1..Len(queues["oracle"]) : queues["oracle"][i].job_id = last.job_id

\* C33: update_job_status never creates a job: a call for a job_id that has
\* no state record leaves the store without a record for it, so that
\* get_job_status still finds nothing and the metrics do not count it.
C33_UpdateNeverCreates ==
    [][(last'.op = "update_job_status" /\ last'.job_id \notin DOMAIN state)
          => /\ last'.job_id \notin DOMAIN state'
             /\ IsEmpty(GetJobStatus(state', last'.job_id))
             /\ GetPipelineMetrics([World EXCEPT !.state = state']).total_jobs
                  = GetPipelineMetrics(World).total_jobs]_vars

\* C34: in every reachable state every job record in the store has an expiry,
\* and the expiry lies at most 24 hours after the record was first written
\* (its created_at); also when a submit was interrupted between the write of
\* the record and the setting of its expiry, and after any status updates.
C34_EveryRecordExpires ==
    \A job_id \in DOMAIN state :
        /\ job_id \in DOMAIN ttl
        /\ HasTime(state[job_id], "created_at")
             => ttl[job_id] <= state[job_id].created_at + DayMs

\* C35: started_at is the time at which the processing of the job began: once
\* a record holds a started_at, no process_job call on the job, the first or
\* a repeated one, changes it.
C35_StartedAtIsSetOnce ==
    [][(/\ last'.op = "process_job"
        /\ last'.job_id \in DOMAIN state
        /\ last'.job_id \in DOMAIN state'
        /\ HasTime(state[last'.job_id], "started_at"))
          => state'[last'.job_id].started_at = state[last'.job_id].started_at]_vars

\* C36: with submits and confirmed resets interleaved command by command,
\* every snapshot on a stage queue refers to a job_id that has a state record,
\* as long as the 24 hours of that record have not passed; so after a reset
\* that returned success no queue holds a snapshot of a job whose record the
\* reset deleted.
C36_SnapshotsHaveRecords ==
    \A q \in StageQueues : \A i \in 1..Len(queues[q]) :
        LET job == queues[q][i]
        IN  now < job.created_at + DayMs => job.job_id \in DOMAIN state

\* C37: move_to_dlq for a job_id that has no live state record writes
\* nothing and reports nothing: when process_job fails for a job whose record
\* is absent at the failure (never written, or expired since the lookup), the
\* call returns False or lets the store's exception pass, the dead-letter
\* queue and the other queues are as they were, no record is written, and the
\* failed job has no dead-letter entry from the call.
C37_NoRecordNoDlqEntry ==
    [][(/\ last'.op = "process_job"
        /\ last'.exc # NoneStr
        /\ last'.job_id \notin DOMAIN state')
          => /\ last'.ret \in {"False", "raised"}
             /\ queues' = queues
             /\ \A k \in DOMAIN state' : k \in DOMAIN state /\ state'[k] = state[k]
             /\ ttl' = PurgeTtl(ttl, now')]_vars

\* a process_job call has failed for a submitted job (its snapshot is on the
\* oracle queue) whose record was gone at the failure, and the dead-letter
\* queue has no entry for it
C37_Witness ==
    /\ last.op = "process_job"
    /\ last.exc # NoneStr
    /\ last.ret = "False"
    /\ last.job_id \notin DOMAIN state
    /\ \E i \in 1..Len(queues["oracle"]) : queues["oracle"][i].job_id = last.job_id
    /\ DlqEntries(queues, last.job_id) = {}
    /\ stats.jobs_failed > 0

-----------------------------------------------------------------------------
(* Unknown queue names and the statistics counters *)

\* C38: the queue operations on a name that is not one of the six configured
\* queues have no effect and do not block: enqueue returns False, dequeue
\* returns no item at once whatever its timeout (the caller does not wait),
\* get_queue_length returns 0, and no queue, no state record and no waiting
\* dequeue call changes.
C38_UnknownNameHasNoEffect ==
    [][(/\ last'.op \in {"enqueue", "dequeue", "get_queue_length"}
        /\ last'.arg1 \notin QueueNames)
          => /\ last'.op = "enqueue" => last'.ret = "False"
             /\ last'.op = "dequeue" => last'.ret = "None"
             /\ last'.op = "get_queue_length" => last'.ret = 0
             /\ last'.exc = NoneStr
             /\ UNCHANGED <<state, ttl, queues, workers, enqueued, delivered>>]_vars

\* a call with a name that has no queue has returned while a configured queue
\* holds a payload and a dequeue call of a worker is in progress
C38_Witness ==
    /\ last.op \in {"enqueue", "dequeue", "get_queue_length"}
    /\ last.arg1 \notin QueueNames
    /\ queues["oracle"] # <<>>
    /\ \E w \in Workers : workers[w].pc = "served"

\* how much a counter of the statistics grows in a step
Grows(name) == stats'[name] - stats[name]

\* the results of the batch_process call after a round of its loop
ResultsAfter == IF batch'.pc = "loop" THEN batch'.results ELSE last'.results

\* C39: the statistics counters never decrease and move by one per outcome.
\* jobs_submitted grows by 1 on a submit_video_job that returns a job id and on
\* nothing else; a process_job call adds 1 to jobs_completed if and only if it
\* returns True, 1 to jobs_failed if and only if an exception was raised
\* inside it, and nothing to either when it returns False because the store
\* is in local mode or the job was not found.  A round of batch_process is
\* one submit and, for a job id it returned, one process_job.
C39_CountersMoveByOne ==
    [][/\ \A name \in DOMAIN stats : Grows(name) \in {0, 1}
       /\ Grows("jobs_completed") + Grows("jobs_failed") <= 1
       /\ batch.pc # "loop"
            => /\ Grows("jobs_submitted") = 1
                   <=> (last'.op = "submit_video_job" /\ last'.ret = "job_id")
               /\ Grows("jobs_completed") = 1
                   <=> (last'.op = "process_job" /\ last'.ret = "True")
               /\ Grows("jobs_failed") = 1
                   <=> (last'.op = "process_job" /\ last'.exc # NoneStr)
               /\ (last'.op = "process_job" /\ last'.ret = "False" /\ last'.exc = NoneStr)
                   => stats' = stats
       /\ batch.pc = "loop"
            => /\ Grows("jobs_submitted")
                   = Len(ResultsAfter.job_ids) - Len(batch.results.job_ids)
               /\ Grows("jobs_completed")
                   = ResultsAfter.successful - batch.results.successful
               /\ Grows("jobs_completed") + Grows("jobs_failed") <= Grows("jobs_submitted")
               /\ last'.ret = "raised" => Grows("jobs_failed") = 1]_vars

\* a submit and a process_job call have been counted, and the last
\* process_job call found no record and counted nothing
C39_Witness ==
    /\ stats.jobs_submitted > 0
    /\ stats.jobs_completed + stats.jobs_failed > 0
    /\ last.op = "process_job"
    /\ last.ret = "False"
    /\ last.exc = NoneStr

====
